---------------------------- MODULE Spec2Model ----------------------------
(***************************************************************************)
(* Swisspower DynPreis: the slot normalizer of coordinator.py and the      *)
(* pricing helpers of pricing.py, as operators over JSON-like values, and  *)
(* one specification per function that draws the arguments from bounded    *)
(* sets and applies the function:                                          *)
(*   SpecNorm     _normalize_slots, and _normalize_slots on its own output *)
(*   SpecExtract  extract_slot_value                                       *)
(*   SpecCurrent  find_current_slot                                        *)
(*   SpecAverage  average_price_for_window                                 *)
(*   SpecWindow   window_extreme                                           *)
(*   SpecPercentile  percentile_threshold                                  *)
(*   SpecBinary   _percentile_binary of sensor.py                          *)
(*   SpecTyped    normalize_price_slots                                    *)
(*   SpecAlias    _normalize_slots on one slot with several aliases        *)
(*   SpecFlags    the five percentile sensors at one instant               *)
(*   SpecIsOn     SwisspowerDynPreisBinaryStatSensor.is_on                 *)
(* In each, pc is "call" before the function is applied and "returned"     *)
(* after it, args holds the arguments and ret the value returned.          *)
(* Three specifications take several steps:                                 *)
(*   SpecRefresh  the coordinator's refresh cycle, one fetch per tariff    *)
(*                type, publishing the snapshot or failing                 *)
(*   SpecQuery    a statistics query of sensor.py evaluated twice on the   *)
(*                same snapshot while the clock runs                       *)
(*   SpecPipeline _normalize_slots, then normalize_price_slots on what it  *)
(*                published                                                *)
(* clock is the wall clock dt_util.now() reads; data and                   *)
(* last_update_success are the coordinator's published snapshot and flag,  *)
(* cycle the refresh that is running.                                      *)
(*                                                                         *)
(* Values.  Every Python value is a record tagged by its field k:          *)
(*   [k |-> "none"]                     None                               *)
(*   [k |-> "str", s]                   a string that is no timestamp      *)
(*   [k |-> "iso", t, tz]               an ISO-8601 string with an offset, *)
(*                                      denoting instant t, written in     *)
(*                                      zone tz ("utc" or "local")         *)
(*   [k |-> "epoch", n, big]            a number under a timestamp key:    *)
(*                                      n seconds, given in milliseconds   *)
(*                                      (value above 10^12) when big       *)
(*   [k |-> "datetime", t]              an aware datetime, instant t       *)
(*   [k |-> "float", m, e]              a float m * 2^e (see Floats)       *)
(*   [k |-> "list", items]              a list                             *)
(*   [k |-> "dict", d]                  a dict: d is a function whose      *)
(*                                      DOMAIN is the set of keys present  *)
(*   [k |-> "raise", exc]               an exception leaving the function  *)
(* Instants are whole seconds counted from the start of the local day.     *)
(* Aware datetimes compare by instant, whatever zone they are written in.  *)
(***************************************************************************)
EXTENDS Integers, Sequences, FiniteSets, TLC

VARIABLES pc, args, ret, clock, data, last_update_success, cycle

vars == <<pc, args, ret, clock, data, last_update_success, cycle>>

\* the wall clock and the coordinator, which the pure functions do not touch
env == <<clock, data, last_update_success, cycle>>

(* ------------------------------ bounds -------------------------------- *)

MaxTime == 2

MaxSlots == 3

MaxItems == 2

MaxPriceSlots == 2

MaxDaySlots == 4

MaxValues == 6

\* the most aliases of one kind (start or end) a raw slot carries
MaxAliases == 2

Times == 0..MaxTime

\* the length of a local day, in the seconds of the model
DayLength == MaxTime

(* ------------------------------ values -------------------------------- *)

None == [k |-> "none"]

\* the clock at the start of the local day, no snapshot published, no
\* refresh running
EnvAtRest ==
    /\ clock = 0
    /\ data = None
    /\ last_update_success = TRUE
    /\ cycle = None

Str(s) == [k |-> "str", s |-> s]

Iso(t, tz) == [k |-> "iso", t |-> t, tz |-> tz]

Epoch(n, big) == [k |-> "epoch", n |-> n, big |-> big]

DT(t) == [k |-> "datetime", t |-> t]

List(items) == [k |-> "list", items |-> items]

Dict(d) == [k |-> "dict", d |-> d]

Raise(exc) == [k |-> "raise", exc |-> exc]

\* dict.get(key): None for a key that is not present
Get(slot, key) == IF key \in DOMAIN slot.d THEN slot.d[key] ELSE None

\* slot[key] = value
Put(slot, key, value) ==
    Dict([x \in (DOMAIN slot.d) \cup {key} |-> IF x = key THEN value ELSE slot.d[x]])

HasKey(slot, key) == key \in DOMAIN slot.d

(* ------------------------------ floats -------------------------------- *)
(* A Python float (IEEE-754 binary64) that is zero or positive is the      *)
(* record [k |-> "float", m, e] standing for m * 2^e, where m is a natural  *)
(* number of at most MantissaBits bits, odd unless the float is zero, kept  *)
(* as its base-2^15 digits, least significant first (<<>> is zero).  Every  *)
(* operation computes the exact result and rounds it to the nearest float,  *)
(* ties to the even mantissa, as the hardware does.  Subnormals, overflow   *)
(* and negative numbers are outside the values the model draws.             *)

MantissaBits == 53

\* one digit of a mantissa holds 15 bits
Base == 2^15

Fl(m, e) == [k |-> "float", m |-> m, e |-> e]

RECURSIVE BigTrim(_)
BigTrim(a) ==
    IF a # <<>> /\ a[Len(a)] = 0 THEN BigTrim(SubSeq(a, 1, Len(a) - 1)) ELSE a

RECURSIVE BigAddC(_, _, _)
BigAddC(a, b, carry) ==
    IF a = <<>> /\ b = <<>> THEN (IF carry = 0 THEN <<>> ELSE <<carry>>)
    ELSE LET x == IF a = <<>> THEN 0 ELSE Head(a)
             y == IF b = <<>> THEN 0 ELSE Head(b)
             s == x + y + carry
         IN  <<s % Base>> \o BigAddC(IF a = <<>> THEN a ELSE Tail(a),
                                     IF b = <<>> THEN b ELSE Tail(b), s \div Base)

BigAdd(a, b) == BigAddC(a, b, 0)

RECURSIVE BigMulSmallC(_, _, _)
BigMulSmallC(a, n, carry) ==
    IF a = <<>> THEN (IF carry = 0 THEN <<>> ELSE <<carry>>)
    ELSE LET p == Head(a) * n + carry
         IN  <<p % Base>> \o BigMulSmallC(Tail(a), n, p \div Base)

\* a * n for 0 <= n < Base
BigMulSmall(a, n) == BigTrim(BigMulSmallC(a, n, 0))

Zeros(n) == [i \in 1..n |-> 0]

RECURSIVE BigMulFrom(_, _, _)
BigMulFrom(a, b, i) ==
    IF i > Len(b) THEN <<>>
    ELSE BigAdd(IF b[i] = 0 THEN <<>> ELSE Zeros(i - 1) \o BigMulSmall(a, b[i]),
                BigMulFrom(a, b, i + 1))

BigMul(a, b) == BigTrim(BigMulFrom(a, b, 1))

\* a divided by n, 0 < n < Base: the quotient q and the remainder r
RECURSIVE BigDivSmallFrom(_, _, _, _)
BigDivSmallFrom(a, n, i, rem) ==
    IF i = 0 THEN [q |-> <<>>, r |-> rem]
    ELSE LET cur == rem * Base + a[i]
             rest == BigDivSmallFrom(a, n, i - 1, cur % n)
         IN  [q |-> Append(rest.q, cur \div n), r |-> rest.r]

BigDivSmall(a, n) ==
    LET d == BigDivSmallFrom(a, n, Len(a), 0) IN [q |-> BigTrim(d.q), r |-> d.r]

RECURSIVE BitsOf(_)
BitsOf(n) == IF n = 0 THEN 0 ELSE 1 + BitsOf(n \div 2)

BitLen(a) == IF a = <<>> THEN 0 ELSE (Len(a) - 1) * 15 + BitsOf(a[Len(a)])

\* bit i of a (bit 0 is the least significant)
Bit(a, i) ==
    IF i \div 15 + 1 > Len(a) THEN 0
    ELSE (a[i \div 15 + 1] \div 2^(i % 15)) % 2

\* a * 2^n
Shl(a, n) ==
    IF a = <<>> THEN a ELSE Zeros(n \div 15) \o BigMulSmall(a, 2^(n % 15))

\* a divided by 2^n, rounded down
Shr(a, n) ==
    IF n \div 15 >= Len(a) THEN <<>>
    ELSE BigDivSmall(SubSeq(a, n \div 15 + 1, Len(a)), 2^(n % 15)).q

\* the bits of a below bit n are all zero
LowZero(a, n) == \A i \in 0..(n - 1) : Bit(a, i) = 0

RECURSIVE TrailingZeros(_, _)
TrailingZeros(a, i) == IF Bit(a, i) = 1 THEN i ELSE TrailingZeros(a, i + 1)

\* the float m * 2^e for a mantissa m of at most MantissaBits bits
Canon(m, e) ==
    IF m = <<>> THEN Fl(<<>>, 0)
    ELSE LET z == TrailingZeros(m, 0) IN Fl(Shr(m, z), e + z)

\* m * 2^e (plus a nonzero part below the last bit of m when sticky),
\* rounded to the nearest float, ties to even
RoundFloat(m, e, sticky) ==
    LET n == BitLen(m)
        r == n - MantissaBits
        q == Shr(m, r)
        up == Bit(m, r - 1) = 1 /\ (sticky \/ ~LowZero(m, r - 1) \/ Bit(q, 0) = 1)
    IN  IF n <= MantissaBits THEN Canon(m, e)
        ELSE Canon(IF up THEN BigAdd(q, <<1>>) ELSE q, e + r)

IsZero(a) == a.m = <<>>

\* a + b
FAdd(a, b) ==
    IF IsZero(a) THEN b
    ELSE IF IsZero(b) THEN a
    ELSE LET e == IF a.e < b.e THEN a.e ELSE b.e
         IN  RoundFloat(BigAdd(Shl(a.m, a.e - e), Shl(b.m, b.e - e)), e, FALSE)

\* a * b
FMul(a, b) ==
    IF IsZero(a) \/ IsZero(b) THEN Fl(<<>>, 0)
    ELSE RoundFloat(BigMul(a.m, b.m), a.e + b.e, FALSE)

\* a / b, for a divisor whose mantissa is a single digit (b.m < Base):
\* the quotient is carried to two bits more than a mantissa holds
FDiv(a, b) ==
    IF IsZero(a) THEN a
    ELSE LET need == MantissaBits + 2 + BitLen(b.m) - BitLen(a.m)
             sh == IF need > 0 THEN need ELSE 0
             d == BigDivSmall(Shl(a.m, sh), b.m[1])
         IN  RoundFloat(d.q, a.e - b.e - sh, d.r # 0)

\* float(n) for an integer 0 <= n < Base
FromInt(n) == Canon(IF n = 0 THEN <<>> ELSE <<n>>, 0)

\* a < b for two naturals given by their digits
RECURSIVE BigLessFrom(_, _, _)
BigLessFrom(a, b, i) ==
    IF i = 0 THEN FALSE
    ELSE IF a[i] # b[i] THEN a[i] < b[i]
    ELSE BigLessFrom(a, b, i - 1)

BigLess(a, b) ==
    IF Len(a) # Len(b) THEN Len(a) < Len(b) ELSE BigLessFrom(a, b, Len(a))

\* a < b
FLess(a, b) ==
    IF IsZero(b) THEN FALSE
    ELSE IF IsZero(a) THEN TRUE
    ELSE LET e == IF a.e < b.e THEN a.e ELSE b.e
         IN  BigLess(Shl(a.m, a.e - e), Shl(b.m, b.e - e))

\* a <= b
FLessEq(a, b) == ~FLess(b, a)

\* -a for a float a > 0: the same record with a sign.  Only a percentile
\* is ever negative in the model, and it is only compared with zero.
Minus(a) == [k |-> "float", m |-> a.m, e |-> a.e, neg |-> TRUE]

\* a <= 0
NotPositive(a) == IsZero(a) \/ "neg" \in DOMAIN a

\* the natural number a sequence of digits stands for
RECURSIVE BigToInt(_)
BigToInt(a) == IF a = <<>> THEN 0 ELSE Head(a) + Base * BigToInt(Tail(a))

\* round(a) for a float a >= 0: the nearest integer, a half going to the
\* even neighbour
RoundHalfEven(a) ==
    IF IsZero(a) THEN 0
    ELSE IF a.e >= 0 THEN BigToInt(Shl(a.m, a.e))
    ELSE LET q == Shr(a.m, -a.e)
             up == /\ Bit(a.m, -a.e - 1) = 1
                   /\ (~LowZero(a.m, -a.e - 1) \/ Bit(q, 0) = 1)
         IN  BigToInt(q) + (IF up THEN 1 ELSE 0)

\* Mutant: int(a), the fraction is cut off.
Truncated(a) ==
    IF IsZero(a) THEN 0
    ELSE IF a.e >= 0 THEN BigToInt(Shl(a.m, a.e))
    ELSE BigToInt(Shr(a.m, -a.e))

(* --------------------- homeassistant.util.dt -------------------------- *)

\* dt_util.parse_datetime(dt_str): the datetime an ISO-8601 string denotes,
\* None for a string that does not match the format.  The function matches
\* its argument as a string: any other argument (None included) leaves it
\* with a TypeError.
parse_datetime(value) ==
    CASE value.k = "iso" -> DT(value.t)
      [] value.k = "str" -> None
      [] OTHER -> Raise("TypeError")

\* dt_util.as_local(value).isoformat(): the same instant, written in the
\* local zone.
as_local_isoformat(value) == Iso(value.t, "local")

(* --------------------------- coordinator.py --------------------------- *)

StartKeys == <<"start_timestamp", "start", "start_time", "from", "timestamp", "time">>

EndKeys == <<"end_timestamp", "end", "end_time", "to", "valid_until", "finish">>

\* Mutant: an alias whose value is a string that is no timestamp is passed
\* over, the next alias is looked at.
RECURSIVE first_value_from_decodable(_, _, _)
first_value_from_decodable(slot, keys, i) ==
    IF i > Len(keys) THEN None
    ELSE IF Get(slot, keys[i]).k \notin {"none", "str"} THEN Get(slot, keys[i])
    ELSE first_value_from_decodable(slot, keys, i + 1)

\* lines 180-184: the value of the first key from position i on that is
\* not None
RECURSIVE first_value_from(_, _, _)
first_value_from(slot, keys, i) ==
    IF i > Len(keys) THEN None
    ELSE IF Get(slot, keys[i]) # None THEN Get(slot, keys[i])
    ELSE first_value_from(slot, keys, i + 1)

\* _first_value(slot, *keys)
first_value(slot, keys) == first_value_from(slot, keys, 1)

\* _coerce_datetime(value)
coerce_datetime(value) ==
    CASE value.k = "datetime" -> value
      [] value.k = "epoch" -> DT(value.n)
      [] value.k \in {"iso", "str"} -> parse_datetime(value)
      [] OTHER -> None

\* lines 129-132: a dict is copied, anything else is wrapped
slot_data_of(slot) ==
    IF slot.k = "dict" THEN slot ELSE Dict([x \in {"value"} |-> slot])

\* lines 128-145: the list prepared, before the timestamps are written
prepared_of(slots) == [i \in 1..Len(slots) |-> slot_data_of(slots[i])]

\* lines 133-144: starts[i]
starts_of(slots) ==
    [i \in 1..Len(slots) |-> coerce_datetime(first_value(prepared_of(slots)[i], StartKeys))]

\* Mutant: only the slot right after is looked at, a start that did not
\* resolve is not skipped.
next_start_adjacent(starts, index) ==
    IF index + 1 > Len(starts) THEN None ELSE starts[index + 1]

\* lines 161-165: the first start after position index that is not None
RECURSIVE next_start_after(_, _)
next_start_after(starts, index) ==
    IF index + 1 > Len(starts) THEN None
    ELSE IF starts[index + 1] # None THEN starts[index + 1]
    ELSE next_start_after(starts, index + 1)

\* Mutant: the end is inferred whenever the start resolved, an explicit end
\* is not kept (line 160 without "end is None").
end_of_always_inferred(slot_data, starts, index, window_end) ==
    LET end == coerce_datetime(first_value(slot_data, EndKeys))
        next_start == next_start_after(starts, index)
    IN  IF starts[index] # None
        THEN IF next_start # None THEN DT(next_start.t - 1) ELSE window_end
        ELSE end

\* lines 149-169: the end of the slot at position index
end_of(slot_data, starts, index, window_end) ==
    LET end == coerce_datetime(first_value(slot_data, EndKeys))
        next_start == next_start_after(starts, index)
    IN  IF end = None /\ starts[index] # None
        THEN IF next_start # None THEN DT(next_start.t - 1) ELSE window_end
        ELSE end

\* lines 171-174: the canonical keys written onto the slot
write_back(slot_data, start, end) ==
    LET s1 == IF start # None
              THEN Put(slot_data, "start_timestamp", as_local_isoformat(start))
              ELSE slot_data
    IN  IF end # None THEN Put(s1, "end_timestamp", as_local_isoformat(end)) ELSE s1

\* _normalize_slots(slots, window_end)
normalize_slots(slots, window_end) ==
    LET prepared == prepared_of(slots)
        starts == starts_of(slots)
    IN  [index \in 1..Len(slots) |->
            write_back(prepared[index], starts[index],
                       end_of(prepared[index], starts, index, window_end))]

\* Mutant: slot_data = slot, the timestamps are written onto the caller's
\* own mappings.
caller_slots_aliased(slots, window_end) ==
    [i \in 1..Len(slots) |->
        IF slots[i].k = "dict" THEN normalize_slots(slots, window_end)[i] ELSE slots[i]]

\* line 130, slot_data = dict(slot): the writes go to copies, so the list
\* the caller passed holds the same mappings after the call
caller_slots_after(slots, window_end) == slots

\* lines 109-114: the first of "prices", "data", "slots" that holds a list,
\* "" when none does
slots_key(response) ==
    IF Get(response, "prices").k = "list" THEN "prices"
    ELSE IF Get(response, "data").k = "list" THEN "data"
    ELSE IF Get(response, "slots").k = "list" THEN "slots"
    ELSE ""

\* Mutant: the response is stored as it came, its slots are not normalized.
normalize_tariff_response_raw(response, window_end) == response

\* _normalize_tariff_response(response, window_end=window_end)
normalize_tariff_response(response, window_end) ==
    IF slots_key(response) = "" THEN response
    ELSE Put(response, "prices",
             List(normalize_slots(Get(response, slots_key(response)).items, window_end)))

\* the tariff types of the config entry (self._tariff_types)
TariffTypes == <<"electricity", "grid">>

\* lines 65-82, with no query year set: now, the window of two local days
\* that begins with today, and data as it is before the first fetch
window_of(now) ==
    LET start == (now \div DayLength) * DayLength
    IN  [start |-> DT(start), end |-> DT(start + 2 * DayLength - 1)]

initial_data(now) ==
    Dict(("_effective_now" :> DT(now))
         @@ ("_window" :> Dict(("start" :> window_of(now).start)
                               @@ ("end" :> window_of(now).end))))

\* Mutant: the status of the response is not looked at.
update_error_status_ignored(outcome) ==
    IF outcome.k = "raise"
    THEN IF outcome.exc \in {"ClientError", "ValueError"} THEN Raise("UpdateFailed")
         ELSE outcome
    ELSE None

\* lines 85-97: the exception _async_update_data raises for what the fetch
\* gave (a response, or an exception raised), None when it goes on.  An
\* exception that is neither ClientError nor ValueError goes through as it
\* is.
update_error(outcome) ==
    IF outcome.k = "raise"
    THEN IF outcome.exc \in {"ClientError", "ValueError"} THEN Raise("UpdateFailed")
         ELSE outcome
    ELSE IF Get(outcome, "status") # Str("ok") THEN Raise("UpdateFailed")
    ELSE None

\* DataUpdateCoordinator._async_refresh: self.data is assigned from the
\* value _async_update_data returns; when it raises, self.data stays
data_after_failure(published, gathered) == published

(* ----------------------------- pricing.py ----------------------------- *)

CanonicalUnit == Str("CHF/kWh")

\* Mutant: the component filter is not applied to the itemized records.
item_eligible_any_component(price, component) == price.k = "dict"

\* lines 32-35: a record of the itemized list the loop does not skip
item_eligible(price, component) ==
    /\ price.k = "dict"
    /\ ~(component # None /\ Get(price, "component") # component)

\* lines 36-39: the loop returns this record's value
item_returns(price) ==
    \/ (Get(price, "unit") = CanonicalUnit /\ Get(price, "value") # None)
    \/ Get(price, "value") # None

\* lines 31-39: the position of the record whose value the loop returns,
\* 0 when the loop ends without returning
RECURSIVE first_hit(_, _, _)
first_hit(items, component, i) ==
    IF i > Len(items) THEN 0
    ELSE IF item_eligible(items[i], component) /\ item_returns(items[i]) THEN i
    ELSE first_hit(items, component, i + 1)

\* lines 40-45: the slot's own unit and component
top_level_value(slot, component) ==
    IF Get(slot, "unit") = CanonicalUnit
    THEN IF component = None /\ Get(slot, "component") \in {None, Str("work")}
         THEN Get(slot, "value")
         ELSE IF component # None /\ Get(slot, "component") = component
         THEN Get(slot, "value")
         ELSE None
    ELSE None

\* lines 29-45: the itemized list under the tariff-type key, then the slot's
\* own fields
itemized_or_top_level(slot, tariff_type, component) ==
    LET prices == Get(slot, tariff_type)
        hit == IF prices.k = "list" THEN first_hit(prices.items, component, 1) ELSE 0
    IN  IF hit # 0 THEN Get(prices.items[hit], "value")
        ELSE top_level_value(slot, component)

\* Mutant: the itemized list is looked at before the slot's direct value.
extract_slot_value_list_first(slot, tariff_type, component) ==
    LET found == itemized_or_top_level(slot, tariff_type, component)
    IN  IF found # None THEN found
        ELSE IF component = None /\ Get(slot, "value").k = "float" THEN Get(slot, "value")
        ELSE None

\* extract_slot_value(slot, tariff_type, component)
extract_slot_value(slot, tariff_type, component) ==
    IF component = None /\ Get(slot, "value").k = "float"
    THEN Get(slot, "value")
    ELSE itemized_or_top_level(slot, tariff_type, component)

\* lines 50-57: the loop of find_current_slot from position i on
RECURSIVE find_current_from(_, _, _)
find_current_from(slots, now, i) ==
    IF i > Len(slots) THEN None
    ELSE LET start == parse_datetime(Get(slots[i], "start_timestamp"))
             end == parse_datetime(Get(slots[i], "end_timestamp"))
         IN  IF start.k = "raise" THEN start
             ELSE IF end.k = "raise" THEN end
             ELSE IF start = None \/ end = None
             THEN find_current_from(slots, now, i + 1)
             ELSE IF start.t <= now.t /\ now.t <= end.t THEN slots[i]
             ELSE find_current_from(slots, now, i + 1)

\* find_current_slot(slots, now)
find_current_slot(slots, now) == find_current_from(slots, now, 1)

\* PriceSlot(start, end, value)
PriceSlot(start, end, value) == [start |-> start, end |-> end, value |-> value]

Later(a, b) == IF a.t >= b.t THEN a ELSE b

Earlier(a, b) == IF a.t <= b.t THEN a ELSE b

\* Mutant: the slot's last second is left out of its interval.
clip_without_last_second(slot, start, end_exclusive) ==
    [from |-> Later(slot.start, start), to |-> Earlier(slot.end, end_exclusive)]

\* lines 97-98: the slot clipped to the window, as [from, to)
clip(slot, start, end_exclusive) ==
    [from |-> Later(slot.start, start), to |-> Earlier(DT(slot.end.t + 1), end_exclusive)]

\* lines 96-103: total_seconds and weighted_sum after the slots from i on
RECURSIVE accumulate(_, _, _, _, _)
accumulate(slots, start, end_exclusive, i, acc) ==
    IF i > Len(slots) THEN acc
    ELSE LET c == clip(slots[i], start, end_exclusive)
             seconds == FromInt(c.to.t - c.from.t)
         IN  IF c.from.t >= c.to.t
             THEN accumulate(slots, start, end_exclusive, i + 1, acc)
             ELSE accumulate(slots, start, end_exclusive, i + 1,
                     [weighted_sum |-> FAdd(acc.weighted_sum, FMul(slots[i].value, seconds)),
                      total_seconds |-> FAdd(acc.total_seconds, seconds)])

\* average_price_for_window(slots, start, end_exclusive)
average_price_for_window(slots, start, end_exclusive) ==
    LET acc == accumulate(slots, start, end_exclusive, 1,
                          [weighted_sum |-> FromInt(0), total_seconds |-> FromInt(0)])
    IN  IF IsZero(acc.total_seconds) THEN None
        ELSE FDiv(acc.weighted_sum, acc.total_seconds)

\* line 120: the slots whose start lies in [start, end_exclusive)
day_slots_of(slots, start, end_exclusive) ==
    SelectSeq(slots, LAMBDA slot : start.t <= slot.start.t /\ slot.start.t < end_exclusive.t)

\* Mutant: neighbours are not compared, every run of slots is scored.
contiguous_unchecked(window) == TRUE

\* lines 128-132: every slot of the window starts one second after the end
\* of the slot before it
contiguous(window) ==
    \A i \in 1..(Len(window) - 1) : window[i].end.t + 1 = window[i + 1].start.t

\* sum(slot.value for slot in window): the values added in list order,
\* starting from 0
RECURSIVE sum_values(_, _, _)
sum_values(window, i, acc) ==
    IF i > Len(window) THEN acc
    ELSE sum_values(window, i + 1, FAdd(acc, window[i].value))

\* lines 135-137: the tuple (avg, window_start, window_end) of a window
candidate(window, window_hours) ==
    [avg |-> FDiv(sum_values(window, 1, FromInt(0)), FromInt(window_hours)),
     window_start |-> window[1].start,
     window_end |-> window[Len(window)].end]

\* Mutant: the comparison is not strict, a later window takes a tie.
replaces_on_tie(extreme, avg, best) ==
    \/ (extreme = "min" /\ FLessEq(avg, best.avg))
    \/ (extreme = "max" /\ FLessEq(best.avg, avg))

\* Mutant: the two comparisons are exchanged between "min" and "max".
replaces_swapped(extreme, avg, best) ==
    \/ (extreme = "max" /\ FLess(avg, best.avg))
    \/ (extreme = "min" /\ FLess(best.avg, avg))

\* lines 141-144: the candidate takes the place of the best so far
replaces(extreme, avg, best) ==
    \/ (extreme = "min" /\ FLess(avg, best.avg))
    \/ (extreme = "max" /\ FLess(best.avg, avg))

\* Mutant: range(len(day_slots) - window_hours), the last run is not looked at.
last_index_short(day_slots, window_hours) == Len(day_slots) - window_hours

\* line 124: the last index of range(len(day_slots) - window_hours + 1),
\* counted from 1
last_index(day_slots, window_hours) == Len(day_slots) - window_hours + 1

\* lines 124-144: best after the windows from position index on
RECURSIVE scan_windows(_, _, _, _, _)
scan_windows(day_slots, window_hours, extreme, index, best) ==
    IF index > last_index(day_slots, window_hours) THEN best
    ELSE LET window == SubSeq(day_slots, index, index + window_hours - 1)
             found == candidate(window, window_hours)
         IN  IF ~contiguous(window)
             THEN scan_windows(day_slots, window_hours, extreme, index + 1, best)
             ELSE IF best = None \/ replaces(extreme, found.avg, best)
             THEN scan_windows(day_slots, window_hours, extreme, index + 1, found)
             ELSE scan_windows(day_slots, window_hours, extreme, index + 1, best)

\* window_extreme(slots, start, end_exclusive, window_hours, extreme=extreme)
window_extreme(slots, start, end_exclusive, window_hours, extreme) ==
    LET day_slots == day_slots_of(slots, start, end_exclusive)
    IN  IF window_hours <= 0 THEN None
        ELSE IF day_slots = <<>> THEN None
        ELSE scan_windows(day_slots, window_hours, extreme, 1, None)

\* sorted(values): value put in its place in a sorted list, after the
\* values that are not greater
RECURSIVE insert_sorted(_, _)
insert_sorted(sorted, value) ==
    IF sorted = <<>> THEN <<value>>
    ELSE IF FLess(value, Head(sorted)) THEN <<value>> \o sorted
    ELSE <<Head(sorted)>> \o insert_sorted(Tail(sorted), value)

RECURSIVE sorted_values(_)
sorted_values(values) ==
    IF values = <<>> THEN <<>>
    ELSE insert_sorted(sorted_values(SubSeq(values, 1, Len(values) - 1)),
                       values[Len(values)])

\* Mutant: int(len(values) * percentile), without round().
count_truncated(values, percentile) ==
    LET n == Truncated(FMul(FromInt(Len(values)), percentile))
    IN  IF n > 1 THEN n ELSE 1

\* line 154: count = max(1, int(round(len(values) * percentile)))
count_of(values, percentile) ==
    LET n == RoundHalfEven(FMul(FromInt(Len(values)), percentile))
    IN  IF n > 1 THEN n ELSE 1

\* Mutant: the mode is not looked at, the value is counted from the bottom.
pick_from_bottom(values_sorted, count, highest) ==
    IF count > Len(values_sorted) THEN Raise("IndexError")
    ELSE values_sorted[count]

\* lines 156-158: values_sorted[-count] or values_sorted[count - 1]; an
\* index outside the list is an IndexError
pick(values_sorted, count, highest) ==
    IF count > Len(values_sorted) THEN Raise("IndexError")
    ELSE IF highest THEN values_sorted[Len(values_sorted) - count + 1]
    ELSE values_sorted[count]

\* percentile_threshold(values, percentile, highest=highest)
percentile_threshold(values, percentile, highest) ==
    IF values = <<>> THEN None
    ELSE IF NotPositive(percentile) THEN None
    ELSE pick(sorted_values(values), count_of(values, percentile), highest)

\* sorted(normalized, key=start): slot put in its place in a list sorted by
\* start, after the slots that do not start later
RECURSIVE insert_by_start(_, _)
insert_by_start(sorted, slot) ==
    IF sorted = <<>> THEN <<slot>>
    ELSE IF slot.start.t < Head(sorted).start.t THEN <<slot>> \o sorted
    ELSE <<Head(sorted)>> \o insert_by_start(Tail(sorted), slot)

RECURSIVE sorted_by_start(_)
sorted_by_start(slots) ==
    IF slots = <<>> THEN <<>>
    ELSE insert_by_start(sorted_by_start(SubSeq(slots, 1, Len(slots) - 1)),
                         slots[Len(slots)])

\* line 78: the order of the list returned
returned_order(slots) == sorted_by_start(slots)

\* lines 67-77: the loop from position i on, normalized being the typed
\* slots appended so far; an exception of parse_datetime leaves the function
RECURSIVE typed_from(_, _, _, _, _)
typed_from(slots, tariff_type, component, i, normalized) ==
    IF i > Len(slots) THEN List(normalized)
    ELSE IF slots[i].k # "dict"
    THEN typed_from(slots, tariff_type, component, i + 1, normalized)
    ELSE LET start == parse_datetime(Get(slots[i], "start_timestamp"))
             end == parse_datetime(Get(slots[i], "end_timestamp"))
             value == extract_slot_value(slots[i], tariff_type, component)
         IN  IF start.k = "raise" THEN start
             ELSE IF end.k = "raise" THEN end
             ELSE IF start = None \/ end = None \/ value = None
             THEN typed_from(slots, tariff_type, component, i + 1, normalized)
             ELSE typed_from(slots, tariff_type, component, i + 1,
                             Append(normalized, PriceSlot(start, end, value)))

\* normalize_price_slots(slots, tariff_type, component): the list of typed
\* slots, or the exception raised
normalize_price_slots(slots, tariff_type, component) ==
    LET normalized == typed_from(slots, tariff_type, component, 1, <<>>)
    IN  IF normalized.k = "raise" THEN normalized
        ELSE List(returned_order(normalized.items))

\* day_bounds(offset_days), dt_util.now() reading now: the local day of now
\* moved by offset_days, as [start, end_exclusive)
day_bounds(offset_days, now) ==
    LET start == (now \div DayLength) * DayLength + offset_days * DayLength
    IN  [start |-> DT(start), end_exclusive |-> DT(start + DayLength)]

(* ------------------------------ sensor.py ----------------------------- *)

Bool(b) == [k |-> "bool", b |-> b]

\* line 585: the first day slot whose [start, end] holds now, None when
\* there is none
RECURSIVE current_from(_, _, _)
current_from(day_slots, now, i) ==
    IF i > Len(day_slots) THEN None
    ELSE IF day_slots[i].start.t <= now /\ now <= day_slots[i].end.t THEN day_slots[i]
    ELSE current_from(day_slots, now, i + 1)

\* Mutant: the mode is not looked at in the comparison.
at_threshold_mode_ignored(value, threshold, highest) ==
    Bool(FLessEq(value, threshold))

\* lines 591-593: current.value >= threshold, or current.value <= threshold
at_threshold(value, threshold, highest) ==
    IF highest THEN Bool(FLessEq(threshold, value)) ELSE Bool(FLessEq(value, threshold))

\* _percentile_binary(slots, percentile, tariff_type, component, highest),
\* dt_util.now() reading today_now inside day_bounds (line 580) and now on
\* line 584
percentile_binary(slots, percentile, tariff_type, component, highest, today_now, now) ==
    LET normalized == normalize_price_slots(slots, tariff_type, component)
        bounds == day_bounds(0, today_now)
        day_slots == day_slots_of(normalized.items, bounds.start, bounds.end_exclusive)
        current == current_from(day_slots, now, 1)
        threshold == percentile_threshold([i \in 1..Len(day_slots) |-> day_slots[i].value],
                                          percentile, highest)
    IN  IF normalized.k = "raise" THEN normalized
        ELSE IF day_slots = <<>> THEN None
        ELSE IF current = None THEN None
        ELSE IF threshold = None THEN None
        ELSE at_threshold(current.value, threshold, highest)

IntValue(n) == [k |-> "int", n |-> n]

\* the value is an exception that left the function called
Raised(value) == "exc" \in DOMAIN value

\* the typed slots of the day day_bounds(offset_days) gives when the clock
\* reads clock_now, or the exception normalize_price_slots raised
typed_and_bounds(slots, offset_days, tariff_type, component, clock_now) ==
    [normalized |-> normalize_price_slots(slots, tariff_type, component),
     bounds |-> day_bounds(offset_days, clock_now)]

\* _average_for_day(slots, offset_days, tariff_type, component)
average_for_day(slots, offset_days, tariff_type, component, clock_now) ==
    LET q == typed_and_bounds(slots, offset_days, tariff_type, component, clock_now)
    IN  IF q.normalized.k = "raise" THEN q.normalized
        ELSE average_price_for_window(q.normalized.items, q.bounds.start,
                                      q.bounds.end_exclusive)

\* sum(values)
RECURSIVE sum_floats(_, _, _)
sum_floats(values, i, acc) ==
    IF i > Len(values) THEN acc ELSE sum_floats(values, i + 1, FAdd(acc, values[i]))

\* _day_stats(slots, offset_days, tariff_type, component)
day_stats(slots, offset_days, tariff_type, component, clock_now) ==
    LET q == typed_and_bounds(slots, offset_days, tariff_type, component, clock_now)
        day_slots == day_slots_of(q.normalized.items, q.bounds.start, q.bounds.end_exclusive)
        values == [i \in 1..Len(day_slots) |-> day_slots[i].value]
    IN  IF q.normalized.k = "raise" THEN q.normalized
        ELSE IF values = <<>> THEN Dict(<<>>)
        ELSE Dict([min_price |-> sorted_values(values)[1],
                   max_price |-> sorted_values(values)[Len(values)],
                   average_price |-> FDiv(sum_floats(values, 1, FromInt(0)),
                                          FromInt(Len(values))),
                   slots |-> IntValue(Len(values))])

\* lines 543-545, 559-561, 605-607: window_extreme over the typed slots and
\* the day of offset_days
window_result(slots, offset_days, window_hours, tariff_type, component, extreme, clock_now) ==
    LET q == typed_and_bounds(slots, offset_days, tariff_type, component, clock_now)
    IN  IF q.normalized.k = "raise" THEN q.normalized
        ELSE window_extreme(q.normalized.items, q.bounds.start, q.bounds.end_exclusive,
                            window_hours, extreme)

\* _window_value(slots, offset_days, window_hours, tariff_type, component, extreme)
window_value(slots, offset_days, window_hours, tariff_type, component, extreme, clock_now) ==
    LET result == window_result(slots, offset_days, window_hours, tariff_type, component,
                                extreme, clock_now)
    IN  IF Raised(result) \/ result = None THEN result ELSE result.avg

\* _window_attrs(slots, offset_days, window_hours, tariff_type, component, extreme)
window_attrs(slots, offset_days, window_hours, tariff_type, component, extreme, clock_now) ==
    LET result == window_result(slots, offset_days, window_hours, tariff_type, component,
                                extreme, clock_now)
    IN  IF Raised(result) THEN result
        ELSE IF result = None THEN Dict(<<>>)
        ELSE Dict([window_start |-> Iso(result.window_start.t, "local"),
                   window_end |-> Iso(result.window_end.t, "local"),
                   window_average |-> result.avg])

\* _in_window(slots, now, offset_days, window_hours, tariff_type, component, extreme)
in_window(slots, now, offset_days, window_hours, tariff_type, component, extreme, clock_now) ==
    LET result == window_result(slots, offset_days, window_hours, tariff_type, component,
                                extreme, clock_now)
    IN  IF Raised(result) \/ result = None THEN result
        ELSE Bool(result.window_start.t <= now.t /\ now.t <= result.window_end.t)

\* Mutant: the value of value_fn is returned as it is.
truth_passed_through(value) == value

\* line 483: bool(value); an exception raised by value_fn leaves is_on
truth(value) ==
    IF Raised(value) THEN value
    ELSE IF value = None THEN Bool(FALSE)
    ELSE value

\* lines 481 and 485: self.coordinator.data.get(tariff_type, {}) and
\* data.get("prices", [])
prices_of(snapshot, tariff_type) ==
    IF ~HasKey(snapshot, tariff_type) THEN <<>>
    ELSE IF ~HasKey(Get(snapshot, tariff_type), "prices") THEN <<>>
    ELSE Get(Get(snapshot, tariff_type), "prices").items

\* lines 192-256: value_fn(slots, now, tariff, component) of a binary
\* sensor description, the clock reading clock_now in day_bounds and
\* later_now on line 584
value_fn(description, slots, now, tariff_type, component, clock_now, later_now) ==
    IF description.kind = "percentile"
    THEN percentile_binary(slots, description.percentile, tariff_type, component,
                           description.highest, clock_now, later_now)
    ELSE in_window(slots, now, 0, description.window_hours, tariff_type, component,
                   description.extreme, clock_now)

(* ------------------------- prices of the model ------------------------ *)

\* 0.1
Price010 == Fl(<<19661, 6553, 13107, 102>>, -55)

\* 0.25
Price025 == Fl(<<1>>, -2)

\* 0.3
Price030 == Fl(<<13107, 26214, 19660, 153>>, -54)

\* 0.2
Price020 == Fl(<<19661, 6553, 13107, 102>>, -54)

\* 0.4
Price040 == Fl(<<19661, 6553, 13107, 102>>, -53)

\* 0.30000000000000004, the float next above 0.3
Price030Next == Fl(<<19661, 6553, 13107, 38>>, -52)

\* 0.5
Price050 == Fl(<<1>>, -1)

\* 0.6
Price060 == Fl(<<13107, 26214, 19660, 153>>, -53)

(* ------------------- _normalize_slots: its arguments ------------------ *)

\* sequences over S of length at most n
SeqUpTo(S, n) == UNION {[1..m -> S] : m \in 0..n}

\* Raw slots as the API's historical shapes give them: a start alone, an
\* epoch start with an explicit end, canonical keys that do not parse, a
\* bare number, an unparseable canonical start shadowing a good alias, a
\* start with an unparseable end, an end alone.
RawSlots ==
    {Dict(("start" :> Iso(t, "utc")) @@ ("value" :> Price010)) : t \in Times}
    \cup {Dict(("timestamp" :> Epoch(t, TRUE)) @@ ("end" :> Iso(t, "utc"))
               @@ ("value" :> Price025)) : t \in Times}
    \cup {Dict(("start_timestamp" :> Str("n/a")) @@ ("end_timestamp" :> Str("n/a"))
               @@ ("value" :> Price025)),
          Price030,
          Dict(("start_timestamp" :> Str("n/a")) @@ ("start" :> Iso(0, "utc"))),
          Dict(("from" :> DT(0)) @@ ("end_timestamp" :> Str("n/a"))),
          Dict(("to" :> Iso(MaxTime, "local")) @@ ("value" :> Price010))}

\* The window end the coordinator passes is the last second of the range it
\* asked the API for: no instant of the model lies after it.
WindowEnds == {MaxTime, MaxTime + 1}

InitNorm ==
    /\ pc = "call"
    /\ args \in {[slots |-> s, window_end |-> DT(w)] : s \in SeqUpTo(RawSlots, MaxSlots),
                                                     w \in WindowEnds}
    /\ ret = None
    /\ EnvAtRest

\* prepared = _normalize_slots(slots, window_end)
Normalize ==
    /\ pc = "call"
    /\ pc' = "returned"
    /\ ret' = normalize_slots(args.slots, args.window_end)
    /\ args' = [args EXCEPT !.slots = caller_slots_after(args.slots, args.window_end)]
    /\ UNCHANGED env

\* _normalize_slots(prepared, window_end2): the normalizer applied to its
\* own output
NormalizeAgain ==
    /\ pc = "returned"
    /\ \E w \in WindowEnds :
          /\ pc' = "again"
          /\ ret' = normalize_slots(ret, DT(w))
          /\ args' = [slots |-> caller_slots_after(ret, DT(w)), window_end |-> DT(w)]
    /\ UNCHANGED env

NextNorm == Normalize \/ NormalizeAgain

SpecNorm == InitNorm /\ [][NextNorm]_vars

Spec == SpecNorm

(* ----------------------- claims: the normalizer ----------------------- *)

Returned == pc \in {"returned", "again"}

\* the timestamp a slot of the output holds under a canonical key, as an
\* instant; None when the key is absent or does not hold a timestamp
Resolved(slot, key) ==
    IF Get(slot, key).k = "iso" THEN DT(Get(slot, key).t) ELSE None

StartIn(i) == coerce_datetime(first_value(slot_data_of(args.slots[i]), StartKeys))

EndIn(i) == coerce_datetime(first_value(slot_data_of(args.slots[i]), EndKeys))

\* C1: every slot of the output that carries a resolved start_timestamp and
\* a resolved end_timestamp has start <= end.
C1_StartNotAfterEnd ==
    Returned =>
        \A i \in 1..Len(ret) :
            (Resolved(ret[i], "start_timestamp") # None
                /\ Resolved(ret[i], "end_timestamp") # None)
            => Resolved(ret[i], "start_timestamp").t <= Resolved(ret[i], "end_timestamp").t

\* the positions after i whose start resolved
LaterStarts(i) == {j \in (i + 1)..Len(args.slots) : StartIn(j) # None}

FirstLaterStart(i) == CHOOSE j \in LaterStarts(i) : \A x \in LaterStarts(i) : j <= x

\* C2: a slot whose start resolves and that has no resolvable end alias gets
\* as end the first resolved start after it minus one second, skipping the
\* slots whose start did not resolve; with no later resolved start it gets
\* window_end.
C2_InferredEnd ==
    Returned =>
        \A i \in 1..Len(args.slots) :
            (StartIn(i) # None /\ EndIn(i) = None)
            => Get(ret[i], "end_timestamp") =
                   IF LaterStarts(i) # {}
                   THEN Iso(StartIn(FirstLaterStart(i)).t - 1, "local")
                   ELSE Iso(args.window_end.t, "local")

\* C2 witness: an end inferred from the start two places on, over a slot
\* whose start did not resolve.
C2_Witness ==
    /\ pc = "returned"
    /\ \E i \in 1..Len(args.slots) :
          /\ StartIn(i) # None /\ EndIn(i) = None
          /\ i + 2 <= Len(args.slots)
          /\ StartIn(i + 1) = None
          /\ StartIn(i + 2) # None
          /\ Get(ret[i], "end_timestamp") = Iso(StartIn(i + 2).t - 1, "local")
          /\ args.window_end.t # StartIn(i + 2).t - 1

CanonicalKeys == {"start_timestamp", "end_timestamp"}

\* C3: normalizing the output of the normalizer again, with any window end,
\* leaves start_timestamp and end_timestamp of every slot as the first run
\* produced them.
C3_Idempotent ==
    pc = "again" =>
        /\ Len(ret) = Len(args.slots)
        /\ \A i \in 1..Len(ret) : \A key \in CanonicalKeys :
              /\ HasKey(ret[i], key) <=> HasKey(args.slots[i], key)
              /\ Get(ret[i], key) = Get(args.slots[i], key)

\* C3 witness: the last slot's end was inferred from the first run's window
\* end, and the second run is given another window end.
C3_Witness ==
    /\ pc = "again"
    /\ Len(ret) >= 2
    /\ LET slot == args.slots[Len(ret)]
       IN  /\ HasKey(slot, "start")
           /\ \A i \in 2..Len(EndKeys) : ~HasKey(slot, EndKeys[i])
           /\ Get(ret[Len(ret)], "end_timestamp").k = "iso"
           /\ Get(ret[Len(ret)], "end_timestamp").t # args.window_end.t

\* the value under the first alias present is one that does not decode
Unparseable(slot, keys) ==
    first_value(slot, keys) # None /\ coerce_datetime(first_value(slot, keys)) = None

\* C4: for a raw slot whose start (end) value is unparseable the normalizer
\* returns normally and start_timestamp (end_timestamp) of the output slot
\* holds no unresolved value: it is absent, or a timestamp.
C4_UnparseableLeftAbsent ==
    pc = "returned" =>
        /\ Len(ret) = Len(args.slots)
        /\ \A i \in 1..Len(args.slots) :
              /\ Unparseable(slot_data_of(args.slots[i]), StartKeys)
                    => (~HasKey(ret[i], "start_timestamp")
                           \/ Get(ret[i], "start_timestamp").k = "iso")
              /\ Unparseable(slot_data_of(args.slots[i]), EndKeys)
                    => (~HasKey(ret[i], "end_timestamp")
                           \/ Get(ret[i], "end_timestamp").k = "iso")

\* C5: one output slot per input slot, in input order; a non-mapping input
\* is wrapped as {value: input}; every key but the two canonical ones keeps
\* its input value; the caller's slots are not modified.
C5_Frame ==
    [][(pc' \in {"returned", "again"}) =>
        LET input == IF pc = "call" THEN args.slots ELSE ret
        IN  /\ args'.slots = input
            /\ Len(ret') = Len(input)
            /\ \A i \in 1..Len(input) :
                  /\ ret'[i].k = "dict"
                  /\ (DOMAIN ret'[i].d) \ CanonicalKeys
                        = (IF input[i].k = "dict" THEN DOMAIN input[i].d ELSE {"value"})
                              \ CanonicalKeys
                  /\ \A key \in (DOMAIN ret'[i].d) \ CanonicalKeys :
                        ret'[i].d[key] = IF input[i].k = "dict" THEN input[i].d[key]
                                         ELSE input[i]]_vars

\* C5 witness: a list with a bare number and a mapping whose timestamps were
\* written has been normalized.
C5_Witness ==
    /\ pc = "returned"
    /\ \E i, j \in 1..Len(args.slots) :
          /\ args.slots[i].k # "dict"
          /\ Get(ret[i], "value") = args.slots[i]
          /\ args.slots[j].k = "dict"
          /\ ret[j] # args.slots[j]
          /\ Get(ret[j], "value") = Price010

(* ------------------ extract_slot_value: its arguments ----------------- *)

Absent == [k |-> "absent"]

\* the dict holding the fields of the record that are not Absent
DictOf(fields) ==
    Dict([x \in {key \in DOMAIN fields : fields[key] # Absent} |-> fields[x]])

Components == {Str("work"), Str("fee")}

\* the records of an itemized list, and an entry that is no mapping
Items ==
    {Dict([component |-> c, unit |-> u, value |-> v]) :
        c \in Components, u \in {CanonicalUnit, Str("Rp/kWh")},
        v \in {None, Price025, Price030}}
    \cup {Price010}

\* slots with or without a direct value, an itemized list under the key
\* "electricity", a unit and a component of their own
PricedSlots ==
    {DictOf([value |-> v, electricity |-> l, unit |-> u, component |-> c]) :
        v \in {Absent, Price010, Str("0.1")},
        l \in {Absent} \cup {List(items) : items \in SeqUpTo(Items, MaxItems)},
        u \in {Absent, CanonicalUnit},
        c \in {Absent} \cup Components}

InitExtract ==
    /\ pc = "call"
    /\ args \in {[slot |-> s, tariff_type |-> t, component |-> c] :
                    s \in PricedSlots, t \in {"electricity", "grid"},
                    c \in {None} \cup Components}
    /\ ret = None
    /\ EnvAtRest

\* value = extract_slot_value(slot, tariff_type, component)
Extract ==
    /\ pc = "call"
    /\ pc' = "returned"
    /\ ret' = extract_slot_value(args.slot, args.tariff_type, args.component)
    /\ UNCHANGED args
    /\ UNCHANGED env

NextExtract == Extract

SpecExtract == InitExtract /\ [][NextExtract]_vars

(* ------------------------ claims: the extractor ----------------------- *)

\* the itemized records of the slot under the tariff-type key
ItemsIn(slot, tariff_type) ==
    IF Get(slot, tariff_type).k = "list" THEN Get(slot, tariff_type).items ELSE <<>>

\* the positions of the records that are mappings, match the component
\* filter and hold a value
Eligible(slot, tariff_type, component) ==
    {i \in 1..Len(ItemsIn(slot, tariff_type)) :
        LET price == ItemsIn(slot, tariff_type)[i]
        IN  /\ price.k = "dict"
            /\ (component = None \/ Get(price, "component") = component)
            /\ Get(price, "value") # None}

\* C6: with no component filter, a slot with a direct numeric value yields
\* that value, whatever its itemized list, unit and component hold.
C6_DirectValueWins ==
    (pc = "returned" /\ args.component = None /\ Get(args.slot, "value").k = "float")
    => ret = Get(args.slot, "value")

\* C6 witness: the direct value was returned although the itemized list
\* holds an eligible record in the canonical unit with another value.
C6_Witness ==
    /\ pc = "returned"
    /\ args.component = None
    /\ Get(args.slot, "value") = Price010
    /\ ret = Price010
    /\ \E i \in Eligible(args.slot, args.tariff_type, None) :
          /\ Get(ItemsIn(args.slot, args.tariff_type)[i], "unit") = CanonicalUnit
          /\ Get(ItemsIn(args.slot, args.tariff_type)[i], "value") # Price010

\* the extractor resolves through the itemized list
ThroughList ==
    /\ pc = "returned"
    /\ ~(args.component = None /\ Get(args.slot, "value").k = "float")
    /\ Eligible(args.slot, args.tariff_type, args.component) # {}

\* C7: resolving through the itemized list, the value returned is that of
\* an eligible record in the canonical unit whenever one holds a value, even
\* behind an eligible record in another unit; otherwise it is the value of
\* the first eligible record that holds one.
C7_CanonicalUnitPreferred ==
    ThroughList =>
        LET items == ItemsIn(args.slot, args.tariff_type)
            eligible == Eligible(args.slot, args.tariff_type, args.component)
            canonical == {i \in eligible : Get(items[i], "unit") = CanonicalUnit}
        IN  IF canonical # {}
            THEN \E i \in canonical : ret = Get(items[i], "value")
            ELSE \E i \in eligible :
                    /\ \A j \in eligible : i <= j
                    /\ ret = Get(items[i], "value")

\* C8: with a component filter c, a value returned is the value of an
\* itemized record whose component is c, or the slot's own value when the
\* slot's unit is the canonical one and its own component is c.
C8_ComponentFilter ==
    (pc = "returned" /\ args.component # None /\ ret # None)
    => \/ \E i \in 1..Len(ItemsIn(args.slot, args.tariff_type)) :
             LET price == ItemsIn(args.slot, args.tariff_type)[i]
             IN  /\ price.k = "dict"
                 /\ Get(price, "component") = args.component
                 /\ Get(price, "value") = ret
       \/ /\ Get(args.slot, "unit") = CanonicalUnit
          /\ Get(args.slot, "component") = args.component
          /\ Get(args.slot, "value") = ret

\* C8 witness: the first record holds a value for another component and is
\* passed over for the record of the component asked for.
C8_Witness ==
    /\ pc = "returned"
    /\ args.component = Str("fee")
    /\ Len(ItemsIn(args.slot, args.tariff_type)) = 2
    /\ LET items == ItemsIn(args.slot, args.tariff_type)
       IN  /\ items[1].k = "dict"
           /\ Get(items[1], "component") = Str("work")
           /\ Get(items[1], "value") = Price025
           /\ items[2].k = "dict"
           /\ Get(items[2], "component") = Str("fee")
           /\ ret = Price030
    /\ Get(args.slot, "value") = Price010

(* ------------------ find_current_slot: its arguments ------------------ *)

\* Slots as the normalizer leaves them: both timestamps written, no
\* timestamp at all (a bare number wrapped), a start that did not parse.
CanonicalSlots ==
    {Dict(("start_timestamp" :> Iso(s, "local")) @@ ("end_timestamp" :> Iso(e, "local"))
          @@ ("value" :> Price010)) : s \in Times, e \in Times}
    \cup {Dict("value" :> Price030),
          Dict(("start_timestamp" :> Str("n/a")) @@ ("end_timestamp" :> Iso(MaxTime, "local"))
               @@ ("value" :> Price025))}

InitCurrent ==
    /\ pc = "call"
    /\ args \in {[slots |-> s, now |-> DT(n)] :
                    s \in SeqUpTo(CanonicalSlots, MaxSlots), n \in 0..(MaxTime + 1)}
    /\ ret = None
    /\ EnvAtRest

\* slot = find_current_slot(slots, now)
FindCurrent ==
    /\ pc = "call"
    /\ pc' = "returned"
    /\ ret' = find_current_slot(args.slots, args.now)
    /\ UNCHANGED args
    /\ UNCHANGED env

NextCurrent == FindCurrent

SpecCurrent == InitCurrent /\ [][NextCurrent]_vars

(* --------------------- claims: find_current_slot ---------------------- *)

\* the positions of the slots whose start and end both resolve and whose
\* closed interval [start, end] holds now
Containing ==
    {i \in 1..Len(args.slots) :
        /\ Resolved(args.slots[i], "start_timestamp") # None
        /\ Resolved(args.slots[i], "end_timestamp") # None
        /\ Resolved(args.slots[i], "start_timestamp").t <= args.now.t
        /\ args.now.t <= Resolved(args.slots[i], "end_timestamp").t}

\* C9: find_current_slot returns the first slot in list order whose resolved
\* [start, end] holds now, both ends included, skipping the slots whose
\* start or end is missing or unparseable, and None when there is none.
C9_FirstContaining ==
    pc = "returned" =>
        ret = IF Containing = {} THEN None
              ELSE args.slots[CHOOSE i \in Containing : \A j \in Containing : i <= j]

(* --------------- average_price_for_window: its arguments -------------- *)

PriceSlots ==
    {PriceSlot(DT(s), DT(e), v) : s \in Times, e \in Times, v \in {Price010, Price025}}

\* typed slots come sorted by start (normalize_price_slots, line 78)
SortedByStart(slots) ==
    \A i \in 1..(Len(slots) - 1) : slots[i].start.t <= slots[i + 1].start.t

InitAverage ==
    /\ pc = "call"
    /\ args \in {[slots |-> s, start |-> DT(a), end_exclusive |-> DT(b)] :
                    s \in {x \in SeqUpTo(PriceSlots, MaxPriceSlots) : SortedByStart(x)},
                    a \in Times, b \in 0..(MaxTime + 1)}
    /\ ret = None
    /\ EnvAtRest

\* average = average_price_for_window(slots, start, end_exclusive)
Average ==
    /\ pc = "call"
    /\ pc' = "returned"
    /\ ret' = average_price_for_window(args.slots, args.start, args.end_exclusive)
    /\ UNCHANGED args
    /\ UNCHANGED env

NextAverage == Average

SpecAverage == InitAverage /\ [][NextAverage]_vars

(* ------------------ claims: average_price_for_window ------------------ *)

\* the window [start, end_exclusive) lies inside the slot's [start, end]
Inside(slot) ==
    /\ slot.start.t <= args.start.t
    /\ args.end_exclusive.t <= slot.end.t + 1

\* the slot shares at least one second with the window
Overlaps(slot) ==
    Later(slot.start, args.start).t < Earlier(DT(slot.end.t + 1), args.end_exclusive).t

\* C10: over a non-empty window that lies fully inside one slot's interval
\* (and meets no other slot) the average is exactly that slot's value,
\* whatever the length of the window.
C10_AverageInsideOneSlot ==
    (pc = "returned" /\ args.start.t < args.end_exclusive.t) =>
        \A i \in 1..Len(args.slots) :
            (/\ Inside(args.slots[i])
             /\ \A j \in 1..Len(args.slots) : j # i => ~Overlaps(args.slots[j]))
            => ret = args.slots[i].value

\* the seconds slot i shares with the window: the length of
\* [max(slot.start, start), min(slot.end + 1s, endExclusive)), nothing when
\* that interval is empty or inverted
OverlapSeconds(i) ==
    LET from == IF args.slots[i].start.t >= args.start.t
                THEN args.slots[i].start.t ELSE args.start.t
        to == IF args.slots[i].end.t + 1 <= args.end_exclusive.t
              THEN args.slots[i].end.t + 1 ELSE args.end_exclusive.t
    IN  IF to > from THEN to - from ELSE 0

\* the sum of the overlaps of the first n slots
RECURSIVE TotalOverlap(_)
TotalOverlap(n) ==
    IF n = 0 THEN 0 ELSE TotalOverlap(n - 1) + OverlapSeconds(n)

\* the sum of value * overlap over the first n slots, added up in the order
\* of the list
RECURSIVE WeightedOverlap(_)
WeightedOverlap(n) ==
    IF n = 0 THEN FromInt(0)
    ELSE FAdd(WeightedOverlap(n - 1),
              FMul(args.slots[n].value, FromInt(OverlapSeconds(n))))

\* C21: the average is the sum over the slots of value * overlap seconds
\* divided by the sum of the overlap seconds, a slot's overlap being
\* [max(slot.start, start), min(slot.end + 1s, endExclusive)) and nothing
\* when that is empty or inverted; the result is None exactly when no slot
\* has a positive overlap with the window, an empty list included.
C21_WeightedAverage ==
    pc = "returned" =>
        /\ ret = None <=> \A i \in 1..Len(args.slots) : OverlapSeconds(i) = 0
        /\ ret # None =>
              ret = FDiv(WeightedOverlap(Len(args.slots)),
                         FromInt(TotalOverlap(Len(args.slots))))

\* an average over two slots of different values, the first cut by the
\* window's start and the second ending with the window
C21_Witness ==
    /\ pc = "returned"
    /\ Len(args.slots) = 2
    /\ args.slots[1].start.t < args.start.t
    /\ OverlapSeconds(1) > 0
    /\ OverlapSeconds(2) > 0
    /\ args.slots[1].value # args.slots[2].value
    /\ ret # None

(* ---------------------- window_extreme: its arguments ----------------- *)

\* one hour, in seconds
Hour == 60 * 60

WindowPrices == {Price010, Price020, Price030, Price040}

\* n hourly typed slots from hour 0 on, sorted by start, with the values v;
\* the slot at position irregular (if any) ends skew seconds before the last
\* second of its hour: a gap before the next slot (skew 1) or an overlap
\* with it (skew -1)
HourlySlots(n, v, irregular, skew) ==
    [i \in 1..n |->
        PriceSlot(DT((i - 1) * Hour),
                  DT(i * Hour - 1 - (IF i = irregular THEN skew ELSE 0)),
                  v[i])]

DayLists ==
    {HourlySlots(n, v, irregular, skew) :
        n \in 0..MaxDaySlots, v \in [1..MaxDaySlots -> WindowPrices],
        irregular \in 0..(MaxDaySlots - 1), skew \in {1, -1}}

\* the day asked for, in hours: one that holds every slot, and one that
\* begins after the first slot and ends with the start of the last
Days == {<<0, MaxDaySlots>>, <<1, MaxDaySlots - 1>>}

InitWindow ==
    /\ pc = "call"
    /\ args \in {[slots |-> s, start |-> DT(d[1] * Hour), end_exclusive |-> DT(d[2] * Hour),
                  window_hours |-> n, extreme |-> x] :
                    s \in DayLists, d \in Days, n \in 0..MaxDaySlots, x \in {"min", "max"}}
    /\ ret = None
    /\ EnvAtRest

\* result = window_extreme(slots, start, end_exclusive, window_hours, extreme=extreme)
WindowExtreme ==
    /\ pc = "call"
    /\ pc' = "returned"
    /\ ret' = window_extreme(args.slots, args.start, args.end_exclusive,
                             args.window_hours, args.extreme)
    /\ UNCHANGED args
    /\ UNCHANGED env

NextWindow == WindowExtreme

SpecWindow == InitWindow /\ [][NextWindow]_vars

(* ----------------------- claims: window_extreme ----------------------- *)

\* the typed slots whose start lies in [dayStart, dayEnd), in list order
DaySlots ==
    SelectSeq(args.slots,
              LAMBDA slot : args.start.t <= slot.start.t /\ slot.start.t < args.end_exclusive.t)

\* the positions at which a run of N consecutive day slots begins
Runs ==
    IF args.window_hours <= 0 THEN {}
    ELSE {i \in 1..Len(DaySlots) : i + args.window_hours - 1 <= Len(DaySlots)}

\* the run beginning at i has no gap and no overlap between neighbours
Gapless(i) ==
    \A j \in i..(i + args.window_hours - 2) :
        DaySlots[j].end.t + 1 = DaySlots[j + 1].start.t

ValidRuns == {i \in Runs : Gapless(i)}

\* the sum of the first n values of the run beginning at i
RECURSIVE RunSum(_, _)
RunSum(i, n) ==
    IF n = 0 THEN FromInt(0) ELSE FAdd(RunSum(i, n - 1), DaySlots[i + n - 1].value)

\* the unweighted mean of the run beginning at i
Mean(i) == FDiv(RunSum(i, args.window_hours), FromInt(args.window_hours))

\* the result is the run beginning at i
IsRun(result, i) ==
    /\ result.avg = Mean(i)
    /\ result.window_start = DaySlots[i].start
    /\ result.window_end = DaySlots[i + args.window_hours - 1].end

\* C11: a window returned by window_extreme is a run of N consecutive day
\* slots in which every slot starts exactly one second after the end of the
\* slot before it; a run with a gap or an overlap between neighbours is
\* never returned.
C11_OnlyContiguousRuns ==
    (pc = "returned" /\ ret # None) => \E i \in ValidRuns : IsRun(ret, i)

\* C11 witness: a run with a one-second gap has a mean below the mean of
\* the cheapest window returned, and was passed over.
C11_Witness ==
    /\ pc = "returned"
    /\ ret # None
    /\ args.extreme = "min"
    /\ \E i \in Runs \ ValidRuns :
          /\ FLess(Mean(i), ret.avg)
          /\ \E j \in i..(i + args.window_hours - 2) :
                DaySlots[j].end.t + 2 = DaySlots[j + 1].start.t

\* the mean of run i is not beaten by the mean of run j, for the extreme
\* asked for
NotBeaten(i, j) ==
    IF args.extreme = "min" THEN ~FLess(Mean(j), Mean(i)) ELSE ~FLess(Mean(i), Mean(j))

\* the valid runs whose mean is the minimum (maximum) over all valid runs
ExtremeRuns == {i \in ValidRuns : \A j \in ValidRuns : NotBeaten(i, j)}

\* C12: when a valid run exists, window_extreme returns the minimum (for
\* "min") or maximum (for "max") mean over the valid runs, with the start of
\* the first slot and the end of the last slot of the first run, in start
\* order, that attains it.
C12_FirstExtremeRun ==
    (pc = "returned" /\ ValidRuns # {}) =>
        /\ ExtremeRuns # {}
        /\ ret # None
        /\ IsRun(ret, CHOOSE i \in ExtremeRuns : \A j \in ExtremeRuns : i <= j)

\* C12 witness: two valid runs attain the extreme mean, the one returned is
\* the earlier, and a run with another mean lies before it.
C12_Witness ==
    /\ pc = "returned"
    /\ ret # None
    /\ \E i, j \in ExtremeRuns :
          /\ i < j
          /\ ret.window_start = DaySlots[i].start
          /\ ret.window_end # DaySlots[j + args.window_hours - 1].end
          /\ \E x \in ValidRuns : x < i /\ Mean(x) # Mean(i)

\* C13: window_extreme returns None exactly when no valid run of N day
\* slots exists (fewer than N slots in the day, a gap or overlap in every
\* run, or N <= 0), and otherwise a tuple (average, windowStart, windowEnd).
C13_NoneIffNoValidRun ==
    pc = "returned" =>
        /\ (ret = None <=> ValidRuns = {})
        /\ ret # None => DOMAIN ret = {"avg", "window_start", "window_end"}
        /\ args.window_hours <= 0 => ret = None
        /\ Len(DaySlots) < args.window_hours => ret = None

\* C13 witness: the day holds at least N slots and None is returned, since
\* each of its runs of N slots has a gap or an overlap.
C13_Witness ==
    /\ pc = "returned"
    /\ ret = None
    /\ Cardinality(Runs) >= 2
    /\ ValidRuns = {}

\* the example: four contiguous one-hour slots valued 0.10, 0.30, 0.20,
\* 0.40, a day that holds them all, windows of two slots
ExampleSlots == HourlySlots(4, <<Price010, Price030, Price020, Price040>>, 0, 0)

ExampleCall ==
    /\ pc = "returned"
    /\ args.slots = ExampleSlots
    /\ args.start.t = 0
    /\ args.end_exclusive.t >= 4 * Hour
    /\ args.window_hours = 2

Spanning(avg, first, last) ==
    [avg |-> avg, window_start |-> ExampleSlots[first].start,
     window_end |-> ExampleSlots[last].end]

\* C14 as stated: on the example, "min" gives the average 0.20 over slots 1
\* and 2, and "max" gives the average 0.30 over slots 2 and 3.
C14_ExampleAsStated ==
    ExampleCall =>
        ret = IF args.extreme = "min" THEN Spanning(Price020, 1, 2)
              ELSE Spanning(Price030, 2, 3)

\* C14 amended: on the example, "min" gives the average 0.20 over slots 1
\* and 2, and "max" gives the average of 0.20 and 0.40, which is the float
\* 0.30000000000000004, over slots 3 and 4.
C14_Example ==
    ExampleCall =>
        ret = IF args.extreme = "min" THEN Spanning(Price020, 1, 2)
              ELSE Spanning(Price030Next, 3, 4)

\* C14 witness: the example was evaluated for "max" and the window returned
\* begins with the third slot.
C14_Witness ==
    /\ ExampleCall
    /\ args.extreme = "max"
    /\ ret # None
    /\ ret.window_start = DT(2 * Hour)

(* ------------------- percentile_threshold: its arguments -------------- *)

PriceList == <<Price010, Price020, Price030, Price040, Price050, Price060>>

\* Lists of at most MaxValues prices, repeated values included, in
\* ascending order, in descending order, and with the smallest value moved
\* to the end.
AscendingLists ==
    {[i \in 1..Len(x) |-> PriceList[x[i]]] :
        x \in {y \in UNION {[1..m -> 1..Len(PriceList)] : m \in 1..MaxValues} :
                  \A i \in 1..(Len(y) - 1) : y[i] <= y[i + 1]}}

Reversed(values) == [i \in 1..Len(values) |-> values[Len(values) + 1 - i]]

Rotated(values) == Tail(values) \o <<Head(values)>>

ValueLists ==
    {<<>>} \cup AscendingLists
           \cup {Reversed(values) : values \in AscendingLists}
           \cup {Rotated(values) : values \in AscendingLists}

\* the percentiles of the sensors (0.10, 0.25, 0.50), 0.2, the whole list,
\* zero and a negative one
Percentiles ==
    {Price010, Price020, Price025, Price050, FromInt(1), FromInt(0), Minus(Price025)}

InitPercentile ==
    /\ pc = "call"
    /\ args \in {[values |-> v, percentile |-> p, highest |-> h] :
                    v \in ValueLists, p \in Percentiles, h \in BOOLEAN}
    /\ ret = None
    /\ EnvAtRest

\* threshold = percentile_threshold(values, percentile, highest=highest)
PercentileThreshold ==
    /\ pc = "call"
    /\ pc' = "returned"
    /\ ret' = percentile_threshold(args.values, args.percentile, args.highest)
    /\ UNCHANGED args
    /\ UNCHANGED env

NextPercentile == PercentileThreshold

SpecPercentile == InitPercentile /\ [][NextPercentile]_vars

(* --------------------- claims: percentile_threshold ------------------- *)

\* max(1, round(n * p)), a half rounding to the even neighbour
Count ==
    LET n == RoundHalfEven(FMul(FromInt(Len(args.values)), args.percentile))
    IN  IF n < 1 THEN 1 ELSE n

\* how many of the values are below, at most, above, at least t
Below(t) == Cardinality({i \in 1..Len(args.values) : FLess(args.values[i], t)})

AtMost(t) == Cardinality({i \in 1..Len(args.values) : ~FLess(t, args.values[i])})

Above(t) == Cardinality({i \in 1..Len(args.values) : FLess(t, args.values[i])})

AtLeast(t) == Cardinality({i \in 1..Len(args.values) : ~FLess(args.values[i], t)})

\* t stands at position k (counted from 1) of the values put in ascending
\* order
AtRank(t, k) ==
    /\ \E i \in 1..Len(args.values) : args.values[i] = t
    /\ Below(t) < k
    /\ k <= AtMost(t)

ExampleValues == <<Price010, Price020, Price030, Price040, Price050>>

\* C15: percentile_threshold returns None for an empty list or p <= 0;
\* otherwise, with count = max(1, round(n * p)), it returns the value at
\* position count of the ascending order in lowest mode and the value count
\* positions from the top in highest mode; [0.1, 0.2, 0.3, 0.4, 0.5] with
\* p = 0.2 in lowest mode gives 0.1.
C15_Threshold ==
    pc = "returned" =>
        /\ IF args.values = <<>> \/ NotPositive(args.percentile) THEN ret = None
           ELSE /\ ret.k = "float"
                /\ AtRank(ret, IF args.highest THEN Len(args.values) - Count + 1 ELSE Count)
        /\ (args.values = ExampleValues /\ args.percentile = Price020 /\ ~args.highest)
              => ret = Price010

\* C15 witness: a count of 2 that comes from rounding a half to the even
\* neighbour (5 * 0.5), with the second smallest value returned in lowest
\* mode.
C15_Witness ==
    /\ pc = "returned"
    /\ Len(args.values) = 5
    /\ args.percentile = Price050
    /\ ~args.highest
    /\ args.values[5] = Price010
    /\ ret = Price030
    /\ Below(ret) = 1

\* the call percentile_threshold(values, 0.25, highest=True) on a non-empty
\* list has returned
TopQuarter ==
    /\ pc = "returned"
    /\ args.values # <<>>
    /\ args.percentile = Price025
    /\ args.highest

\* C16 as stated: exactly max(1, round(n * 0.25)) of the values are >= the
\* threshold returned for the top 25%.
C16_ExactlyCountAtLeast ==
    TopQuarter => (ret.k = "float" /\ AtLeast(ret) = Count)

\* no two values of the list are equal
Distinct == \A i, j \in 1..Len(args.values) : args.values[i] = args.values[j] => i = j

\* C16 amended: at least max(1, round(n * 0.25)) of the values are >= the
\* threshold returned for the top 25%, fewer than that are above it, and
\* exactly that many are >= it when no two values are equal.
C16_AtLeastCount ==
    TopQuarter =>
        /\ ret.k = "float"
        /\ AtLeast(ret) >= Count
        /\ Above(ret) < Count
        /\ Distinct => AtLeast(ret) = Count

\* C16 witness: six distinct values, of which exactly two are >= the
\* threshold returned.
C16_Witness ==
    /\ TopQuarter
    /\ Len(args.values) = 6
    /\ Distinct
    /\ ret.k = "float"
    /\ AtLeast(ret) = 2
    /\ args.values[1] # ret

(* -------------------- _percentile_binary: its arguments --------------- *)

\* Slots as the coordinator publishes them: both timestamps written and a
\* direct value, and a bare number the normalizer wrapped, which has no
\* timestamp.
PublishedSlots ==
    {Dict(("start_timestamp" :> Iso(s, "local")) @@ ("end_timestamp" :> Iso(e, "local"))
          @@ ("value" :> v)) : s \in Times, e \in Times, v \in {Price010, Price025}}
    \cup {Dict("value" :> Price030)}

\* a slot of the snapshot that lasts from its start to its own second or to
\* the last instant
Lasting(slot) ==
    HasKey(slot, "start_timestamp") =>
        Get(slot, "end_timestamp").t \in {Get(slot, "start_timestamp").t, MaxTime}

Snapshots ==
    SeqUpTo({slot \in PublishedSlots : Lasting(slot)}, MaxSlots)

InitBinary ==
    /\ pc = "call"
    /\ args \in {[slots |-> s, percentile |-> p, tariff_type |-> "electricity",
                  component |-> None, highest |-> h] :
                    s \in Snapshots, p \in {Price025, Price050}, h \in BOOLEAN}
    /\ ret = None
    /\ clock \in Times
    /\ data = None
    /\ last_update_success = TRUE
    /\ cycle = None

\* is_on = _percentile_binary(slots, percentile, tariff_type, component,
\* highest): the clock is read for the day, and read again, at that instant
\* or a second later, for now
PercentileBinary ==
    /\ pc = "call"
    /\ pc' = "returned"
    /\ \E now \in {clock, clock + 1} :
          /\ clock' = now
          /\ ret' = percentile_binary(args.slots, args.percentile, args.tariff_type,
                                      args.component, args.highest, clock, now)
    /\ UNCHANGED <<args, data, last_update_success, cycle>>

NextBinary == PercentileBinary

SpecBinary == InitBinary /\ [][NextBinary]_vars

(* ---------------------- claims: _percentile_binary -------------------- *)

\* the positions of the snapshot's slots that give a typed slot: both
\* timestamps resolve and the extractor yields a value
TypedPositions ==
    {i \in 1..Len(args.slots) :
        /\ Resolved(args.slots[i], "start_timestamp") # None
        /\ Resolved(args.slots[i], "end_timestamp") # None
        /\ extract_slot_value(args.slots[i], args.tariff_type, args.component) # None}

ValueAt(i) == extract_slot_value(args.slots[i], args.tariff_type, args.component)

\* the typed slots that start in the local day holding the instant day_now
TodayPositions(day_now) ==
    {i \in TypedPositions :
        LET start == Resolved(args.slots[i], "start_timestamp").t
            midnight == (day_now \div DayLength) * DayLength
        IN  midnight <= start /\ start < midnight + DayLength}

\* the threshold of percentile_threshold over the values at the positions S:
\* the value that stands count places from the bottom (lowest mode) or from
\* the top (highest mode)
IsThreshold(t, S) ==
    LET n == RoundHalfEven(FMul(FromInt(Cardinality(S)), args.percentile))
        count == IF n < 1 THEN 1 ELSE n
        below == Cardinality({i \in S : FLess(ValueAt(i), t)})
        above == Cardinality({i \in S : FLess(t, ValueAt(i))})
    IN  /\ \E i \in S : ValueAt(i) = t
        /\ IF args.highest
           THEN above < count /\ count <= Cardinality(S) - below
           ELSE below < count /\ count <= Cardinality(S) - above

\* C17: _percentile_binary returns None when today has no typed slot or no
\* typed slot of today holds now in its [start, end]; otherwise it returns
\* whether the value of the current slot is >= the threshold (highest mode)
\* or <= the threshold (lowest mode), the threshold being that of
\* percentile_threshold over all of today's typed values.
C17_PercentileMembership ==
    [][pc' = "returned" =>
        LET today == TodayPositions(clock)
            holding == {i \in today :
                           /\ Resolved(args.slots[i], "start_timestamp").t <= clock'
                           /\ clock' <= Resolved(args.slots[i], "end_timestamp").t}
        IN  IF holding = {} THEN ret' = None
            ELSE \E i \in holding : \E j \in today :
                    /\ IsThreshold(ValueAt(j), today)
                    /\ ret' = Bool(IF args.highest
                                   THEN ~FLess(ValueAt(i), ValueAt(j))
                                   ELSE ~FLess(ValueAt(j), ValueAt(i)))]_vars

(* ------------------- normalize_price_slots: its arguments ------------- *)

\* Slots of a snapshot: published slots with a direct value, with an
\* itemized list only, with no value at all, with a start that did not
\* parse, and with no timestamp.
SnapshotSlots ==
    {slot \in PublishedSlots : Lasting(slot)}
    \cup {Dict(("start_timestamp" :> Iso(s, "local")) @@ ("end_timestamp" :> Iso(s, "local")))
             : s \in Times}
    \cup {Dict(("start_timestamp" :> Iso(0, "local")) @@ ("end_timestamp" :> Iso(MaxTime, "local"))
               @@ ("electricity" :> List(<<Dict([component |-> Str("work"),
                                                 unit |-> CanonicalUnit,
                                                 value |-> Price030])>>))),
          Dict(("start_timestamp" :> Str("n/a")) @@ ("end_timestamp" :> Iso(MaxTime, "local"))
               @@ ("value" :> Price025))}

InitTyped ==
    /\ pc = "call"
    /\ args \in {[slots |-> s, tariff_type |-> "electricity", component |-> c] :
                    s \in SeqUpTo(SnapshotSlots, MaxSlots), c \in {None, Str("work")}}
    /\ ret = None
    /\ EnvAtRest

\* normalized = normalize_price_slots(slots, tariff_type, component)
NormalizePriceSlots ==
    /\ pc = "call"
    /\ pc' = "returned"
    /\ ret' = normalize_price_slots(args.slots, args.tariff_type, args.component)
    /\ UNCHANGED args
    /\ UNCHANGED env

NextTyped == NormalizePriceSlots

SpecTyped == InitTyped /\ [][NextTyped]_vars

(* --------------------- claims: normalize_price_slots ------------------ *)

\* the typed slot the slot at position i of the snapshot gives
TypedAt(i) ==
    PriceSlot(Resolved(args.slots[i], "start_timestamp"),
              Resolved(args.slots[i], "end_timestamp"), ValueAt(i))

\* C18: normalize_price_slots returns a list of typed slots in ascending
\* order of start, holding exactly one typed slot for each slot whose two
\* timestamps resolve and whose value the extractor yields, and none for a
\* slot with a missing timestamp or without a value, whatever the order of
\* the input.
C18_TypedSorted ==
    pc = "returned" =>
        /\ ret.k = "list"
        /\ \A i \in 1..(Len(ret.items) - 1) :
              ret.items[i].start.t <= ret.items[i + 1].start.t
        /\ Len(ret.items) = Cardinality(TypedPositions)
        /\ \A i \in TypedPositions :
              Cardinality({j \in TypedPositions : TypedAt(j) = TypedAt(i)})
                  = Cardinality({j \in 1..Len(ret.items) : ret.items[j] = TypedAt(i)})

(* ------------------------- the refresh cycle -------------------------- *)

\* What a fetch gives: a response with status "ok" and a list of slots
\* under "prices" or "data", with status "ok" and no list, with another
\* status, with no status (a body that is no JSON); or an
\* exception: aiohttp's ClientError, a ValueError, the timeout of the
\* request.
Outcomes ==
    {Dict(("status" :> Str("ok")) @@ ("prices" :> List(<<slot>>))) :
        slot \in {Dict("start" :> Iso(0, "utc")), Price030}}
    \cup {Dict(("status" :> Str("ok")) @@ ("data" :> List(<<Price030>>))),
          Dict(("status" :> Str("ok")) @@ ("message" :> Str("no data"))),
          Dict(("status" :> Str("error")) @@ ("message" :> Str("no data"))),
          Dict("raw" :> Str("<html>")),
          Raise("ClientError"), Raise("ValueError"), Raise("TimeoutError")}

\* pc is "idle" or "fetching", args what the last fetch gave, ret what the
\* last call of _async_update_data returned or raised
InitRefresh ==
    /\ pc = "idle"
    /\ args = None
    /\ ret = None
    /\ EnvAtRest

\* the clock moves on by a second
Tick ==
    /\ clock <= MaxTime
    /\ clock' = clock + 1
    /\ UNCHANGED <<pc, args, ret, data, last_update_success, cycle>>

\* _async_update_data up to the first fetch (lines 65-86)
StartRefresh ==
    /\ pc = "idle"
    /\ pc' = "fetching"
    /\ cycle' = [index |-> 1, data |-> initial_data(clock)]
    /\ UNCHANGED <<args, ret, clock, data, last_update_success>>

\* a fetch gives a response with status "ok": it is normalized and stored
\* under its tariff type; after the last tariff type the data are returned
\* and the coordinator publishes them (lines 96-101)
FetchOk ==
    /\ pc = "fetching"
    /\ \E outcome \in Outcomes :
          /\ update_error(outcome) = None
          /\ args' = outcome
          /\ LET gathered ==
                     Put(cycle.data, TariffTypes[cycle.index],
                         normalize_tariff_response(
                             outcome, Get(Get(cycle.data, "_window"), "end")))
             IN  IF cycle.index < Len(TariffTypes)
                 THEN /\ cycle' = [index |-> cycle.index + 1, data |-> gathered]
                      /\ UNCHANGED <<pc, ret, data, last_update_success>>
                 ELSE /\ cycle' = None
                      /\ pc' = "idle"
                      /\ ret' = gathered
                      /\ data' = gathered
                      /\ last_update_success' = TRUE
    /\ UNCHANGED clock

\* a fetch raises, or gives a response whose status is not "ok": the cycle
\* ends with the exception (lines 93-97) and the coordinator marks the
\* update failed
FetchFails ==
    /\ pc = "fetching"
    /\ \E outcome \in Outcomes :
          /\ update_error(outcome) # None
          /\ args' = outcome
          /\ ret' = update_error(outcome)
    /\ pc' = "idle"
    /\ cycle' = None
    /\ data' = data_after_failure(data, cycle.data)
    /\ last_update_success' = FALSE
    /\ UNCHANGED clock

NextRefresh == Tick \/ StartRefresh \/ FetchOk \/ FetchFails

SpecRefresh == InitRefresh /\ [][NextRefresh]_vars

(* ---------------------- claims: the refresh cycle --------------------- *)

\* the fetch raised, or gave a response whose status is not "ok"
Failing(outcome) ==
    outcome.k = "raise" \/ Get(outcome, "status") # Str("ok")

\* this step is a fetch of the running cycle
FetchStep == pc = "fetching" /\ cycle' # cycle

\* C19: a cycle in which a fetch raises or gives a status other than "ok"
\* ends there with an exception and with the update marked as failed
\* (UpdateFailed for a transport or decoding error and for a bad status), and
\* leaves the published snapshot as it was; the snapshot changes only when a
\* cycle has fetched every tariff type successfully, to what that cycle
\* returned.
C19_FailedCycleKeepsSnapshot ==
    [][/\ (FetchStep /\ Failing(args')) =>
              /\ pc' = "idle"
              /\ cycle' = None
              /\ ret'.k = "raise"
              /\ (args' \in {Raise("ClientError"), Raise("ValueError")} \/ args'.k = "dict")
                    => ret' = Raise("UpdateFailed")
              /\ last_update_success' = FALSE
              /\ data' = data
       /\ data' # data =>
              /\ FetchStep
              /\ ~Failing(args')
              /\ data' = ret'
              /\ last_update_success'
              /\ \A i \in 1..Len(TariffTypes) : HasKey(data', TariffTypes[i])]_vars

\* C19 witness: a snapshot was published by an earlier cycle, the last cycle
\* ended on a response with a bad status, and the earlier snapshot is still
\* the one published.
C19_Witness ==
    /\ pc = "idle"
    /\ data # None
    /\ Get(data, "_effective_now").t < clock
    /\ ret = Raise("UpdateFailed")
    /\ args.k = "dict"
    /\ Get(args, "status") = Str("error")
    /\ last_update_success = FALSE

\* the list of slots the response came with, None when it has none
SlotsOf(response) ==
    IF Get(response, "prices").k = "list" THEN Get(response, "prices")
    ELSE IF Get(response, "data").k = "list" THEN Get(response, "data")
    ELSE IF Get(response, "slots").k = "list" THEN Get(response, "slots")
    ELSE None

\* the entry is a response with status "ok" whose slots, if it came with a
\* list, stand under "prices" as mappings, start and end written in the
\* local zone wherever the slot has a start
NormalizedEntry(entry) ==
    /\ entry.k = "dict"
    /\ Get(entry, "status") = Str("ok")
    /\ SlotsOf(entry) # None =>
          /\ Get(entry, "prices").k = "list"
          /\ \A i \in 1..Len(Get(entry, "prices").items) :
                LET slot == Get(entry, "prices").items[i]
                IN  /\ slot.k = "dict"
                    /\ HasKey(slot, "start") =>
                          /\ Get(slot, "start_timestamp") = Iso(Get(slot, "start").t, "local")
                          /\ Get(slot, "end_timestamp").k = "iso"
                          /\ Get(slot, "end_timestamp").tz = "local"

\* the entry was made from this response: the same keys and values, but
\* for "prices", which holds one slot per slot of the response's list
EntryOf(entry, response) ==
    /\ response.k = "dict"
    /\ (DOMAIN entry.d) \ {"prices"} = (DOMAIN response.d) \ {"prices"}
    /\ \A key \in (DOMAIN response.d) \ {"prices"} : entry.d[key] = response.d[key]
    /\ IF SlotsOf(response) = None THEN ~HasKey(entry, "prices")
       ELSE /\ Get(entry, "prices").k = "list"
            /\ Len(Get(entry, "prices").items) = Len(SlotsOf(response).items)

\* C23: every published snapshot holds a normalized entry for each
\* configured tariff type, all fetched in the cycle that published it: a
\* cycle starts with no entry, each fetch that succeeds adds the entry of
\* its own response and leaves the others, a fetch that raises or gives a
\* status other than "ok" ends the cycle with nothing published, and the
\* snapshot is what the cycle gathered once the last tariff type is fetched.
C23_SnapshotFromOneCycle ==
    [][/\ (pc = "idle" /\ pc' = "fetching") =>
              \A i \in 1..Len(TariffTypes) : ~HasKey(cycle'.data, TariffTypes[i])
       /\ (FetchStep /\ pc' = "fetching") =>
              /\ ~Failing(args')
              /\ cycle'.index = cycle.index + 1
              /\ data' = data
              /\ EntryOf(Get(cycle'.data, TariffTypes[cycle.index]), args')
              /\ \A i \in 1..Len(TariffTypes) :
                    i # cycle.index =>
                        Get(cycle'.data, TariffTypes[i]) = Get(cycle.data, TariffTypes[i])
       /\ (FetchStep /\ Failing(args')) =>
              /\ cycle' = None
              /\ data' = data
       /\ data' # data =>
              /\ FetchStep
              /\ cycle.index = Len(TariffTypes)
              /\ Get(data', "_effective_now") = Get(cycle.data, "_effective_now")
              /\ EntryOf(Get(data', TariffTypes[cycle.index]), args')
              /\ \A i \in 1..(Len(TariffTypes) - 1) :
                    Get(data', TariffTypes[i]) = Get(cycle.data, TariffTypes[i])
       /\ data' # None =>
              \A i \in 1..Len(TariffTypes) :
                  /\ HasKey(data', TariffTypes[i])
                  /\ NormalizedEntry(Get(data', TariffTypes[i]))]_vars

\* C23 witness: a cycle that began after the clock had moved on has
\* published a snapshot whose tariff types hold different entries, one of
\* them with a list of normalized slots.
C23_Witness ==
    /\ pc = "idle"
    /\ data # None
    /\ last_update_success
    /\ Get(data, "_effective_now").t > 0
    /\ Get(data, TariffTypes[1]) # Get(data, TariffTypes[2])
    /\ \E i \in 1..Len(TariffTypes) :
          /\ Get(Get(data, TariffTypes[i]), "prices").k = "list"
          /\ HasKey(Get(Get(data, TariffTypes[i]), "prices").items[1], "start_timestamp")

(* --------------------- the aliases of a raw slot ---------------------- *)

\* what an alias holds: a JSON null, a string that is no timestamp, a
\* timestamp
AliasValues == {None, Str("n/a"), Iso(0, "utc"), Iso(1, "local")}

\* the mappings that carry at most MaxAliases of the keys
AliasFields(keys) ==
    UNION {[K -> AliasValues] :
             K \in {S \in SUBSET {keys[i] : i \in 1..Len(keys)} : Cardinality(S) <= MaxAliases}}

\* raw slots with start aliases only, and raw slots with end aliases and,
\* some of them, a start
AliasSlots ==
    {Dict(f) : f \in AliasFields(StartKeys)}
    \cup {Dict(f @@ g) : f \in AliasFields(EndKeys),
                         g \in {<<>>, "start" :> Iso(0, "utc")}}

InitAlias ==
    /\ pc = "call"
    /\ args \in {[slots |-> <<slot>>, window_end |-> DT(w)] :
                    slot \in AliasSlots, w \in WindowEnds}
    /\ ret = None
    /\ EnvAtRest

NextAlias == Normalize

SpecAlias == InitAlias /\ [][NextAlias]_vars

(* ------------------ claims: the aliases of a raw slot ----------------- *)

\* the positions of the aliases that are present and not null
PresentAliases(slot, keys) ==
    {i \in 1..Len(keys) : HasKey(slot, keys[i]) /\ slot.d[keys[i]] # None}

\* the value of the first alias in priority order that is present and not
\* null, decoded; None when there is none or it does not decode
FirstAliasDecoded(slot, keys) ==
    LET present == PresentAliases(slot, keys)
    IN  IF present = {} THEN None
        ELSE coerce_datetime(slot.d[keys[CHOOSE i \in present : \A j \in present : i <= j]])

\* C22: the start (end) written onto a slot is the decoded value of the
\* first start (end) alias that is present and not null; when that value
\* does not decode no later alias is consulted: the start is left as it
\* was, the end is inferred if the start resolved and left as it was
\* otherwise.
C22_FirstAliasOnly ==
    pc = "returned" =>
        LET slot == args.slots[1]
            start == FirstAliasDecoded(slot, StartKeys)
            end == FirstAliasDecoded(slot, EndKeys)
        IN  /\ Get(ret[1], "start_timestamp") =
                  IF start # None THEN Iso(start.t, "local")
                  ELSE Get(slot, "start_timestamp")
            /\ Get(ret[1], "end_timestamp") =
                  IF end # None THEN Iso(end.t, "local")
                  ELSE IF start # None THEN Iso(args.window_end.t, "local")
                  ELSE Get(slot, "end_timestamp")

\* a slot whose first start alias does not decode while a later alias holds
\* a timestamp has been normalized
C22_Witness ==
    /\ pc = "returned"
    /\ \E i, j \in 1..Len(StartKeys) :
          /\ i < j
          /\ PresentAliases(args.slots[1], StartKeys) = {i, j}
          /\ Get(args.slots[1], StartKeys[i]) = Str("n/a")
          /\ Get(args.slots[1], StartKeys[j]).k = "iso"
    /\ ~HasKey(ret[1], "start_timestamp")

(* ------------- from the API's slots to the typed slots ---------------- *)

\* Raw slots of a response: a start and a value, a start, an end and a
\* value, a start with no value, and a bare number
PipelineSlots ==
    {Dict(("start" :> Iso(t, "utc")) @@ ("value" :> v)) :
        t \in Times, v \in {Price010, Price025}}
    \cup {Dict(("start" :> Iso(t, "utc")) @@ ("end" :> Iso(t, "utc"))
               @@ ("value" :> Price025)) : t \in Times}
    \cup {Dict("start" :> Iso(t, "utc")) : t \in Times}
    \cup {Price030}

InitPipeline ==
    /\ pc = "call"
    /\ args \in {[slots |-> s, window_end |-> DT(w)] :
                    s \in SeqUpTo(PipelineSlots, MaxSlots), w \in WindowEnds}
    /\ ret = None
    /\ EnvAtRest

\* normalize_price_slots(prices, tariff_type, None) on the slots the
\* coordinator published, as every statistics query begins
TypePublished ==
    /\ pc = "returned"
    /\ pc' = "typed"
    /\ ret' = [published |-> ret,
               typed |-> normalize_price_slots(ret, "electricity", None)]
    /\ UNCHANGED args
    /\ UNCHANGED env

NextPipeline == Normalize \/ TypePublished

SpecPipeline == InitPipeline /\ [][NextPipeline]_vars

(* ------------ claims: from the API's slots to the typed slots --------- *)

\* the value of the raw slot at position i, None when it has none
ValueIn(i) == extract_slot_value(slot_data_of(args.slots[i]), "electricity", None)

\* positions i and i + 1 hold priced slots with strictly increasing
\* resolved starts, the first with no end alias
NeighbourPair(i) ==
    /\ StartIn(i) # None
    /\ StartIn(i + 1) # None
    /\ StartIn(i).t < StartIn(i + 1).t
    /\ first_value(slot_data_of(args.slots[i]), EndKeys) = None
    /\ ValueIn(i) # None
    /\ ValueIn(i + 1) # None

\* the typed slots hold the two slots of the pair at i, the first ending a
\* second before the second starts: window_extreme takes them as
\* contiguous, and over [first.start, second.start) the first slot is
\* counted for every second and the second for none
PairAgrees(typed, i) ==
    \E a, b \in 1..Len(typed) :
        /\ typed[a].start.t = StartIn(i).t
        /\ typed[a].value = ValueIn(i)
        /\ typed[b].start.t = StartIn(i + 1).t
        /\ typed[b].value = ValueIn(i + 1)
        /\ typed[a].end.t + 1 = typed[b].start.t
        /\ contiguous(<<typed[a], typed[b]>>)
        /\ clip(typed[a], typed[a].start, typed[b].start)
              = [from |-> typed[a].start, to |-> typed[b].start]
        /\ LET c == clip(typed[b], typed[a].start, typed[b].start)
           IN  c.from.t >= c.to.t

\* C24: for two neighbouring input slots with strictly increasing resolved
\* starts, the first with no end alias, _normalize_slots followed by
\* normalize_price_slots gives typed slots in which the first slot's end
\* plus one second is the second slot's start, so that window_extreme
\* takes the pair as contiguous and average_price_for_window counts every
\* second between the two starts once.
C24_BoundaryConvention ==
    pc = "typed" =>
        \A i \in 1..(Len(args.slots) - 1) :
            NeighbourPair(i) => (ret.typed.k = "list" /\ PairAgrees(ret.typed.items, i))

(* ------------------- the percentile flags of a day -------------------- *)

\* the five percentile sensors of STAT_SENSORS: key, percentile, highest
PercentileFlags ==
    [cheapest_25_today |-> [percentile |-> Price025, highest |-> FALSE],
     cheapest_10_today |-> [percentile |-> Price010, highest |-> FALSE],
     cheapest_50_today |-> [percentile |-> Price050, highest |-> FALSE],
     expensive_25_today |-> [percentile |-> Price025, highest |-> TRUE],
     expensive_10_today |-> [percentile |-> Price010, highest |-> TRUE]]

FlagPrices == <<Price010, Price025, Price030>>

\* lists of at most MaxValues prices in ascending order, and the same lists
\* begun at any of their positions
FlagValueLists ==
    {[i \in 1..Len(x) |-> FlagPrices[x[((i - 1 + r) % Len(x)) + 1]]] :
        x \in {y \in UNION {[1..m -> 1..Len(FlagPrices)] : m \in 1..MaxValues} :
                  \A i \in 1..(Len(y) - 1) : y[i] <= y[i + 1]},
        r \in 0..(MaxValues - 1)}

\* a published slot
Published(start, end, value) ==
    Dict(("start_timestamp" :> Iso(start, "local")) @@ ("end_timestamp" :> Iso(end, "local"))
         @@ ("value" :> value))

\* Snapshots with one slot per value: slots that all last from the start of
\* the first day to the last instant, slots of one second each, slots of the
\* second day, and the first kind followed by a slot with no timestamp
FlagSnapshots ==
    {[i \in 1..Len(v) |-> Published(0, MaxTime, v[i])] : v \in FlagValueLists}
    \cup {[i \in 1..Len(v) |-> Published(i % DayLength, i % DayLength, v[i])] :
             v \in FlagValueLists}
    \cup {[i \in 1..Len(v) |-> Published(DayLength, DayLength, v[i])] : v \in FlagValueLists}
    \cup {[i \in 1..Len(v) |-> Published(0, MaxTime, v[i])] \o <<Dict("value" :> Price030)>> :
             v \in FlagValueLists}

InitFlags ==
    /\ pc = "call"
    /\ args \in {[slots |-> s, tariff_type |-> "electricity", component |-> None] :
                    s \in FlagSnapshots}
    /\ ret = None
    /\ clock \in Times
    /\ data = None
    /\ last_update_success = TRUE
    /\ cycle = None

\* the five value_fn of the percentile sensors on the same snapshot, every
\* reading of the clock giving the same instant
EvaluateFlags ==
    /\ pc = "call"
    /\ pc' = "returned"
    /\ ret' = [key \in DOMAIN PercentileFlags |->
                  percentile_binary(args.slots, PercentileFlags[key].percentile,
                                    args.tariff_type, args.component,
                                    PercentileFlags[key].highest, clock, clock)]
    /\ UNCHANGED args
    /\ UNCHANGED env

NextFlags == EvaluateFlags

SpecFlags == InitFlags /\ [][NextFlags]_vars

(* ---------------- claims: the percentile flags of a day --------------- *)

\* C25: for one snapshot and one instant the flags are nested: cheapest 10%
\* true implies cheapest 25% true, cheapest 25% true implies cheapest 50%
\* true, most expensive 10% true implies most expensive 25% true; and the
\* five flags are None together.
C25_NestedFlags ==
    pc = "returned" =>
        /\ ret.cheapest_10_today = Bool(TRUE) => ret.cheapest_25_today = Bool(TRUE)
        /\ ret.cheapest_25_today = Bool(TRUE) => ret.cheapest_50_today = Bool(TRUE)
        /\ ret.expensive_10_today = Bool(TRUE) => ret.expensive_25_today = Bool(TRUE)
        /\ \A a, b \in DOMAIN PercentileFlags : ret[a] = None <=> ret[b] = None

\* the flags of a snapshot of MaxValues slots where the current price is
\* among the cheapest half and the most expensive quarter, but not among
\* the cheapest tenth nor the most expensive tenth
C25_Witness ==
    /\ pc = "returned"
    /\ Len(args.slots) = MaxValues
    /\ ret.cheapest_10_today = Bool(FALSE)
    /\ ret.cheapest_25_today = Bool(TRUE)
    /\ ret.cheapest_50_today = Bool(TRUE)
    /\ ret.expensive_10_today = Bool(FALSE)
    /\ ret.expensive_25_today = Bool(TRUE)

(* --------------------- the binary sensor entities --------------------- *)

\* the binary descriptions of STAT_SENSORS: the five percentile sensors and
\* the four window sensors
BinaryDescriptions ==
    {[kind |-> "percentile", percentile |-> PercentileFlags[key].percentile,
      highest |-> PercentileFlags[key].highest] : key \in DOMAIN PercentileFlags}
    \cup {[kind |-> "window", window_hours |-> n, extreme |-> x] :
             n \in {2, 4}, x \in {"min", "max"}}

\* published snapshots: an entry whose prices are one of the lists of
\* FlagSnapshots of at most MaxPriceSlots + 1 slots, and an entry that came
\* with no list
EntitySnapshots ==
    {Dict("electricity" :> Dict(("status" :> Str("ok")) @@ ("prices" :> List(slots)))) :
        slots \in {x \in FlagSnapshots : Len(x) <= MaxPriceSlots + 1}}
    \cup {Dict("electricity" :> Dict("status" :> Str("ok")))}

InitIsOn ==
    /\ pc = "call"
    /\ args \in {[tariff_type |-> "electricity", description |-> d] :
                    d \in BinaryDescriptions}
    /\ ret = None
    /\ clock \in Times
    /\ data \in EntitySnapshots
    /\ last_update_success = TRUE
    /\ cycle = None

\* SwisspowerDynPreisBinaryStatSensor.is_on: now is read, value_fn is
\* called on the published prices and reads the clock again, at that
\* instant or a second later; ret holds what value_fn gave and what is_on
\* returns
IsOn ==
    /\ pc = "call"
    /\ pc' = "returned"
    /\ \E later \in {clock, clock + 1} :
          /\ clock' = later
          /\ LET value == value_fn(args.description, prices_of(data, args.tariff_type),
                                   DT(clock), args.tariff_type, None, clock, later)
             IN  ret' = [value |-> value, is_on |-> truth(value)]
    /\ UNCHANGED <<args, data, last_update_success, cycle>>

NextIsOn == IsOn

SpecIsOn == InitIsOn /\ [][NextIsOn]_vars

(* ----------------- claims: the binary sensor entities ----------------- *)

\* C26: is_on returns False whenever the membership function returns None
\* (no slot today, no current slot, no valid contiguous window, no prices);
\* whenever the membership function returns, is_on is True or False, never
\* None.
C26_NeverUnknown ==
    pc = "returned" =>
        /\ ret.value = None => ret.is_on = Bool(FALSE)
        /\ ~Raised(ret.value) => ret.is_on \in {Bool(TRUE), Bool(FALSE)}

\* a window sensor whose day holds slots but no run of window_hours
\* contiguous slots has reported False
C26_Witness ==
    /\ pc = "returned"
    /\ args.description.kind = "window"
    /\ prices_of(data, args.tariff_type) # <<>>
    /\ ret.value = None
    /\ ret.is_on = Bool(FALSE)

(* ----------------------- the statistics queries ----------------------- *)

\* a call of a statistics query on a snapshot, with the arguments the sensor
\* descriptions pass (the fields a query does not take are left at a fixed
\* value)
QueryCall(query, slots, now, offset_days, window_hours, extreme, percentile, highest) ==
    [query |-> query, slots |-> slots, now |-> DT(now), offset_days |-> offset_days,
     window_hours |-> window_hours, extreme |-> extreme, percentile |-> percentile,
     highest |-> highest, tariff_type |-> "electricity", component |-> None]

\* snapshots of slots that each last their own second
QuerySnapshots ==
    SeqUpTo({slot \in PublishedSlots :
                /\ HasKey(slot, "start_timestamp")
                /\ Get(slot, "end_timestamp").t = Get(slot, "start_timestamp").t},
            MaxPriceSlots)

QueryCalls ==
    {QueryCall(q, s, 0, o, 0, "min", Price025, FALSE) :
        q \in {"average_for_day", "day_stats"}, s \in QuerySnapshots, o \in {0, 1}}
    \cup {QueryCall("window_value", s, 0, o, n, "min", Price025, FALSE) :
            s \in QuerySnapshots, o \in {0, 1}, n \in {1, 2}}
    \cup {QueryCall("window_attrs", s, 0, 0, n, "max", Price025, FALSE) :
            s \in QuerySnapshots, n \in {1, 2}}
    \cup {QueryCall("in_window", s, now, 0, 1, x, Price025, FALSE) :
            s \in QuerySnapshots, now \in {0, 1}, x \in {"min", "max"}}
    \cup {QueryCall("percentile_binary", s, 0, 0, 0, "min", p, h) :
            s \in QuerySnapshots, p \in {Price025, Price050}, h \in BOOLEAN}

\* the value of the call when the clock reads clock_now at its start and
\* later_now at the second reading _percentile_binary makes
evaluate(call, clock_now, later_now) ==
    CASE call.query = "average_for_day" ->
            average_for_day(call.slots, call.offset_days, call.tariff_type, call.component,
                            clock_now)
      [] call.query = "day_stats" ->
            day_stats(call.slots, call.offset_days, call.tariff_type, call.component,
                      clock_now)
      [] call.query = "window_value" ->
            window_value(call.slots, call.offset_days, call.window_hours, call.tariff_type,
                         call.component, call.extreme, clock_now)
      [] call.query = "window_attrs" ->
            window_attrs(call.slots, call.offset_days, call.window_hours, call.tariff_type,
                         call.component, call.extreme, clock_now)
      [] call.query = "in_window" ->
            in_window(call.slots, call.now, call.offset_days, call.window_hours,
                      call.tariff_type, call.component, call.extreme, clock_now)
      [] call.query = "percentile_binary" ->
            percentile_binary(call.slots, call.percentile, call.tariff_type, call.component,
                              call.highest, clock_now, later_now)

InitQuery ==
    /\ pc = "call"
    /\ args \in QueryCalls
    /\ ret = <<>>
    /\ EnvAtRest

\* a reader evaluates the query on the snapshot, for the first time or once
\* more with the same arguments; the clock may move on by a second while it
\* does
Evaluate ==
    /\ pc \in {"call", "first"}
    /\ pc' = IF pc = "call" THEN "first" ELSE "second"
    /\ \E later \in {clock, clock + 1} :
          /\ clock' = later
          /\ ret' = Append(ret, evaluate(args, clock, later))
    /\ UNCHANGED <<args, data, last_update_success, cycle>>

NextQuery == Evaluate \/ Tick

SpecQuery == InitQuery /\ [][NextQuery]_vars

(* --------------------- claims: the statistics queries ----------------- *)

\* C20: two evaluations of the same statistics query with the same snapshot,
\* the same now argument and the same tariff type and component return the
\* same result, whenever they are evaluated.
C20_Deterministic ==
    pc = "second" => ret[1] = ret[2]

=============================================================================
